---- MODULE Spec2Model ----
(***************************************************************************)
(* Dynamixel protocol engine (xzz53/dynamixel-tool).                       *)
(*                                                                         *)
(* Master side: ProtocolV1 (dynamixel-utils/src/protocol/v1.rs) and        *)
(* ProtocolV2 (dynamixel-lib/src/protocol/master/v2.rs) driving a          *)
(* half-duplex serial transport.  Bytes are integers 0..255; a fixed-size  *)
(* stack buffer [u8; N] is a sequence holding the bytes written so far,    *)
(* every position beyond it reading as the 0 the array was initialised to. *)
(***************************************************************************)
EXTENDS Integers, Sequences, FiniteSets, TLC

\* ------------------------------------------------------------------ bounds

\* Largest retry counter an engine is constructed with.
MaxRetries == 2
\* Largest number of leading attempts the bus is scripted to spoil.
MaxFail == 3

\* ------------------------------------------------------- program constants

OPCODE_PING == 1
OPCODE_READ == 2
OPCODE_WRITE == 3
OPCODE_SYNC_READ == 130
OPCODE_SYNC_WRITE == 131
BROADCAST_ID == 254
\* [u8; 255] buffers of the V1 master, [u8; 65535] buffers of the V2 master.
V1BufLen == 255
V2BufLen == 65535
\* Marker byte of a V2 status packet.
STATUS_MARK == 85

\* ------------------------------------------------------------- byte arrays

\* buffer[i], 0-based, of a zero-initialised array whose written prefix is buf.
At(buf, i) == IF i < Len(buf) THEN buf[i + 1] ELSE 0

\* buffer[a..b] (Rust half-open range), 0-based.
Range(buf, a, b) == [k \in 1..(b - a) |-> At(buf, a + k - 1)]

\* buffer[0..bytes.len()].copy_from_slice(bytes)
Store(buf, bytes) ==
  IF Len(bytes) >= Len(buf) THEN bytes
  ELSE bytes \o SubSeq(buf, Len(bytes) + 1, Len(buf))

\* iter().fold(0u8, |x, y| x.overflowing_add(y).0) over s[lo..=hi] (1-based):
\* the wrapping sum is associative, so it is computed by halves.
RECURSIVE WrappingSumOf(_, _, _)
WrappingSumOf(s, lo, hi) ==
  IF lo > hi THEN 0
  ELSE IF lo = hi THEN s[lo] % 256
  ELSE LET mid == (lo + hi) \div 2
       IN (WrappingSumOf(s, lo, mid) + WrappingSumOf(s, mid + 1, hi)) % 256

\* The wrapping sum of the first n bytes of s.
WrappingSum(s, n) == WrappingSumOf(s, 1, n)

\* Mutant of Not8: the two's complement of the sum.
Not8AsNeg(x) == (256 - x) % 256

\* !x on a u8.
Not8(x) == 255 - x

\* Mutant of to_le_bytes: the high byte first.
to_be_bytes(x) == <<(x \div 256) % 256, x % 256>>

\* u16::to_le_bytes
to_le_bytes(x) == <<x % 256, (x \div 256) % 256>>

\* u16::from_le_bytes
from_le_bytes(lo, hi) == lo + 256 * hi

\* ------------------------------------------------------------ CRC-16/UMTS

\* Bitwise exclusive or of two naturals.
RECURSIVE Xor(_, _)
Xor(a, b) ==
  IF a = 0 THEN b
  ELSE IF b = 0 THEN a
  ELSE (((a % 2) + (b % 2)) % 2) + 2 * Xor(a \div 2, b \div 2)

\* Polynomial 0x8005, MSB first, no reflection: n shifts of the register c.
RECURSIVE CrcShift(_, _)
CrcShift(c, n) ==
  IF n = 0 THEN c
  ELSE CrcShift(IF c >= 32768 THEN Xor((c * 2) % 65536, 32773) ELSE c * 2, n - 1)

\* The crc crate's lookup table for CRC_16_UMTS, entry i at position i + 1.
CrcTable == SubSeq([i \in 1..256 |-> CrcShift((i - 1) * 256, 8)], 1, 256)

\* a ^ b on two bytes, tabulated.
XorTable == SubSeq([k \in 1..65536 |-> Xor((k - 1) \div 256, (k - 1) % 256)], 1, 65536)
Xor8(a, b) == XorTable[a * 256 + b + 1]

\* One byte of the table-driven update:
\* (crc << 8) ^ table[((crc >> 8) ^ byte) as usize], on a u16.
CrcUpdate(crc, byte) ==
  LET t == CrcTable[Xor8(crc \div 256, byte) + 1]
  IN Xor8(crc % 256, t \div 256) * 256 + (t % 256)

\* The register after the bytes s[lo..hi] have gone through it, starting from
\* crc; the range is halved so that long buffers are folded at logarithmic depth.
RECURSIVE CrcFold(_, _, _, _)
CrcFold(crc, s, lo, hi) ==
  IF lo > hi THEN crc
  ELSE IF lo = hi THEN CrcUpdate(crc, s[lo])
  ELSE LET mid == (lo + hi) \div 2
           left == CrcFold(crc, s, lo, mid)
       IN IF left \in 0..65535 THEN CrcFold(left, s, mid + 1, hi) ELSE 0

\* Crc::<u16>::new(&CRC_16_UMTS).checksum(&s[0..n]): init 0, xorout 0.
Crc16Umts(s, n) == CrcFold(0, s, 1, n)

\* ------------------------------------------------------------------ errors

\* ProtocolError and the transport's io::Error kinds; b carries StatusError's byte.
ErrBadPacket == [e |-> "BadPacket", b |-> 0]
ErrInvalidAddress == [e |-> "InvalidAddress", b |-> 0]
ErrInvalidCount == [e |-> "InvalidCount", b |-> 0]
ErrInvalidArg == [e |-> "InvalidArg", b |-> 0]
ErrStatus(byte) == [e |-> "StatusError", b |-> byte]
ErrIo == [e |-> "Io", b |-> 0]
ErrTimedOut == [e |-> "TimedOut", b |-> 0]
\* Option::None of `let mut error = None`.
None == [e |-> "None", b |-> 0]

\* ------------------------------------------------------------------- codec

\* encode_instruction_v1 into a buffer of cap bytes: the frame written and the
\* length returned, or a panic (the assert, a slice or an index out of range).
encode_instruction_v1(cap, id, instruction, params) ==
  LET length == (2 + Len(params)) % 256
      body == <<id, length, instruction>> \o params
  IN IF length > cap \/ Len(params) + 5 >= cap
     THEN [panic |-> TRUE, frame |-> <<>>, n |-> 0]
     ELSE [panic |-> FALSE,
           frame |-> <<255, 255>> \o body \o <<Not8(WrappingSum(body, Len(body)))>>,
           n |-> 6 + Len(params)]

\* The error byte test of the checksum branch of decode_status_v1.
V1StatusByteBad(byte) == byte # 0

\* decode_status_v1(&buffer, &mut params), buffer and params of cap bytes.
decode_status_v1(buffer, cap, params) ==
  LET param_length == At(buffer, 3) - 2
      csum == WrappingSum(Range(buffer, 2, 5 + param_length), 3 + param_length)
  IN IF cap < 6 \/ At(buffer, 3) < 2
     THEN [kind |-> "err", err |-> ErrBadPacket, n |-> 0, params |-> params]
     ELSE IF cap < 6 + param_length \/ Range(buffer, 0, 2) # <<255, 255>>
     THEN [kind |-> "err", err |-> ErrBadPacket, n |-> 0, params |-> params]
     ELSE IF csum # Not8(At(buffer, 5 + param_length)) \/ V1StatusByteBad(At(buffer, 4))
     THEN [kind |-> "err", err |-> ErrBadPacket, n |-> 0, params |-> params]
     ELSE IF At(buffer, 4) # 0
     THEN [kind |-> "err", err |-> ErrStatus(At(buffer, 4)), n |-> 0, params |-> params]
     ELSE [kind |-> "ok", err |-> None, n |-> 6 + param_length,
           params |-> Store(params, Range(buffer, 5, 5 + param_length))]

\* encode_instruction_v2 into a buffer of cap bytes.
encode_instruction_v2(cap, id, instruction, params) ==
  LET length == (3 + Len(params)) % 65536
      head == <<255, 255, 253, 0, id>> \o to_le_bytes(length) \o <<instruction>> \o params
      cs == Crc16Umts(head, Len(head))
  IN IF length > cap \/ 10 + Len(params) > cap
     THEN [panic |-> TRUE, frame |-> <<>>, n |-> 0]
     ELSE [panic |-> FALSE, frame |-> head \o to_le_bytes(cs), n |-> 10 + Len(params)]

\* decode_status_v2(&buffer, &mut params), buffer and params of cap bytes.
decode_status_v2(buffer, cap, params) ==
  LET length == from_le_bytes(At(buffer, 5), At(buffer, 6))
      param_length == length - 4
      cs == Crc16Umts(Range(buffer, 0, 9 + param_length), 9 + param_length)
  IN IF cap < 10
     THEN [kind |-> "err", err |-> ErrBadPacket, n |-> 0, params |-> params]
     ELSE IF length < 4
     THEN [kind |-> "err", err |-> ErrBadPacket, n |-> 0, params |-> params]
     ELSE IF cap < 10 + param_length \/ Range(buffer, 0, 4) # <<255, 255, 253, 0>>
     THEN [kind |-> "err", err |-> ErrBadPacket, n |-> 0, params |-> params]
     ELSE IF 11 + param_length > cap
     THEN [kind |-> "panic", err |-> None, n |-> 0, params |-> params]
     ELSE IF Range(buffer, 9 + param_length, 11 + param_length) # to_le_bytes(cs)
     THEN [kind |-> "err", err |-> ErrBadPacket, n |-> 0, params |-> params]
     ELSE IF At(buffer, 8) # 0
     THEN [kind |-> "err", err |-> ErrStatus(At(buffer, 8)), n |-> 0, params |-> params]
     ELSE [kind |-> "ok", err |-> None, n |-> 10 + param_length,
           params |-> Store(params, Range(buffer, 9, 9 + param_length))]

\* The status frame a V1 device puts on the bus (slave send_status framing).
StatusFrameV1(id, status, params) ==
  LET length == (2 + Len(params)) % 256
      body == <<id, length, status>> \o params
  IN <<255, 255>> \o body \o <<Not8(WrappingSum(body, Len(body)))>>

\* The status frame a V2 device puts on the bus (slave send_status framing).
StatusFrameV2(id, status, params) ==
  LET length == (4 + Len(params)) % 65536
      head == <<255, 255, 253, 0, id>> \o to_le_bytes(length) \o <<STATUS_MARK, status>> \o params
  IN head \o to_le_bytes(Crc16Umts(head, Len(head)))

\* ------------------------------------------------------------------- state

VARIABLES
  version,          \* ProtocolVersion of the engine: 1 or 2
  retries,          \* self.retries
  overflow_checks,  \* TRUE: arithmetic overflow panics (debug profile); FALSE: it wraps
  pc,               \* "idle", "loop" (inside the retry loop of an operation), "done"
  op,               \* the operation in progress and its arguments
  attempt,          \* index of the next iteration of `for _ in 0..=self.retries`
  error,            \* `let mut error`
  ret,              \* what the operation returned
  wire,             \* bytes received by the port and not yet read
  outcomes,         \* result of every attempt of the operation so far
  io,               \* every write_all / read_exact of the operation so far
  failFirst,        \* how many leading attempts the bus spoils in this operation
  scan,             \* scan: its arguments, the id being pinged and `result`
  cmd               \* the read-reg / write-reg command of the tool in progress

\* The slave engine (ProtocolV1 / ProtocolV2 of protocol/slave) and its port.
VARIABLES
  crate,            \* which slave engine: "lib" (dynamixel-lib) or "utils" (dynamixel-utils, V1 only)
  deq,              \* self.deq, the receive buffer
  loc,              \* the locals `id` and `len` of recv_instruction across its second await
  spc,              \* "none" (no slave), "head", "tail" (the two awaits of the loop), "ret",
                    \* "stop" (send_status failed and the application returned)
  sret,             \* what the current recv_instruction call returned
  source,           \* bytes the bus will still bring to the port, in order
  fed,              \* the byte stream the bus was given at the start
  chunks,           \* in how many pieces the bus has brought bytes so far
  delivered,        \* every RawInstruction returned so far
  sent,             \* every frame written by send_status so far
  last,             \* what the last step of the engine did
  ioErrs,           \* hard I/O errors the port has raised so far
  status_variants,  \* TRUE: the enum Opcode the engines of dynamixel-lib are built with
                    \* declares StatusV1 and StatusV2; FALSE: it is the enum of slave/mod.rs
  heard             \* every byte the bus has brought to the port so far, in order

\* The codec functions applied to one input.
VARIABLES
  cin,              \* the function and its arguments
  cout              \* what it returned

masterVars ==
  <<retries, overflow_checks, pc, op, attempt, error, ret, outcomes, io, failFirst, scan, cmd>>
slaveVars ==
  <<crate, deq, loc, spc, sret, source, fed, chunks, delivered, sent, last, ioErrs,
    status_variants, heard>>
codecVars == <<cin, cout>>

vars == <<version, wire, masterVars, slaveVars, codecVars>>

\* --------------------------------------------------------------- transport

\* Mutant of read_exact: port.read, which succeeds with the bytes that are there.
read_some(w, n) ==
  LET k == IF Len(w) < n THEN Len(w) ELSE n
  IN [ok |-> TRUE, bytes |-> SubSeq(w, 1, k), rest |-> SubSeq(w, k + 1, Len(w))]

\* port.read_exact(&mut buffer[0..n]) on the pending bytes w: n bytes, or a
\* timeout that has consumed what was there.
read_exact(w, n) ==
  IF Len(w) >= n
  THEN [ok |-> TRUE, bytes |-> SubSeq(w, 1, n), rest |-> SubSeq(w, n + 1, Len(w))]
  ELSE [ok |-> FALSE, bytes |-> w, rest |-> <<>>]

\* Log entry of port.write_all(frame) issued while `pending` received bytes were unread.
IoWrite(frame, pending) == [t |-> "w", n |-> Len(frame), bytes |-> frame, pending |-> pending]

\* Log entry of port.read_exact of n bytes that obtained `bytes`.
IoRead(n, bytes) == [t |-> "r", n |-> n, bytes |-> bytes, pending |-> 0]

\* a + b in an unsigned type of the given modulus.
CheckedAdd(a, b, modulus) ==
  [panic |-> overflow_checks /\ a + b >= modulus, v |-> (a + b) % modulus]

\* ---------------------------------------------------------------- attempts

AttOk(data, w, log) == [kind |-> "ok", err |-> None, data |-> data, wire |-> w, io |-> log]
AttErr(e, w, log) == [kind |-> "err", err |-> e, data |-> <<>>, wire |-> w, io |-> log]
AttPanic(w, log) == [kind |-> "panic", err |-> None, data |-> <<>>, wire |-> w, io |-> log]

\* Mutant of ParamsToVec: the decoded parameters, however many the reply declared.
ParamsToVecDeclared(params, count) == params

\* params[0..count.into()].to_vec()
ParamsToVec(params, count) == Range(params, 0, count)

\* read_v1(port, id, address, count).  bus: what the bus does with this frame
\* (wok: write_all succeeds; now: bytes arriving before the read deadline;
\* late: bytes arriving after it).
read_v1(w, bus, id, address, count) ==
  LET enc == encode_instruction_v1(V1BufLen, id, OPCODE_READ, <<address, count>>)
      ew == IoWrite(enc.frame, Len(w))
      w1 == w \o bus.now
      len_read == CheckedAdd(6, count, 256)
      rd == read_exact(w1, len_read.v)
      er == IoRead(len_read.v, rd.bytes)
      buffer == Store(enc.frame, rd.bytes)
      dec == decode_status_v1(buffer, V1BufLen, <<>>)
  IN IF enc.panic THEN AttPanic(w, <<>>)
     ELSE IF ~bus.wok THEN AttErr(ErrIo, w, <<ew>>)
     ELSE IF len_read.panic \/ len_read.v > V1BufLen THEN AttPanic(w1 \o bus.late, <<ew>>)
     ELSE IF ~rd.ok THEN AttErr(ErrTimedOut, rd.rest \o bus.late, <<ew, er>>)
     ELSE IF dec.kind = "err" THEN AttErr(dec.err, rd.rest \o bus.late, <<ew, er>>)
     ELSE AttOk(ParamsToVec(dec.params, count), rd.rest \o bus.late, <<ew, er>>)

\* write_v1(port, id, address, data)
write_v1(w, bus, id, address, data) ==
  LET params == <<address>> \o data
      enc == encode_instruction_v1(V1BufLen, id, OPCODE_WRITE, params)
      ew == IoWrite(enc.frame, Len(w))
      w1 == w \o bus.now
      len_read == 6
      rd == read_exact(w1, len_read)
      er == IoRead(len_read, rd.bytes)
      buffer == Store(enc.frame, rd.bytes)
      dec == decode_status_v1(buffer, V1BufLen, params)
  IN IF Len(data) + 1 > V1BufLen \/ enc.panic THEN AttPanic(w, <<>>)
     ELSE IF ~bus.wok THEN AttErr(ErrIo, w, <<ew>>)
     ELSE IF ~rd.ok THEN AttErr(ErrTimedOut, rd.rest \o bus.late, <<ew, er>>)
     ELSE IF dec.kind = "err" THEN AttErr(dec.err, rd.rest \o bus.late, <<ew, er>>)
     ELSE AttOk(<<>>, rd.rest \o bus.late, <<ew, er>>)

\* read1(port, id, address, count) of the V2 master
read1(w, bus, id, address, count) ==
  LET enc == encode_instruction_v2(V2BufLen, id, OPCODE_READ,
                                   to_le_bytes(address) \o to_le_bytes(count))
      ew == IoWrite(enc.frame, Len(w))
      w1 == w \o bus.now
      len_read == CheckedAdd(11, count, 65536)
      rd == read_exact(w1, len_read.v)
      er == IoRead(len_read.v, rd.bytes)
      buffer == Store(enc.frame, rd.bytes)
      dec == decode_status_v2(buffer, V2BufLen, <<>>)
  IN IF enc.panic THEN AttPanic(w, <<>>)
     ELSE IF ~bus.wok THEN AttErr(ErrIo, w, <<ew>>)
     ELSE IF len_read.panic \/ len_read.v > V2BufLen THEN AttPanic(w1 \o bus.late, <<ew>>)
     ELSE IF ~rd.ok THEN AttErr(ErrTimedOut, rd.rest \o bus.late, <<ew, er>>)
     ELSE IF dec.kind = "panic" THEN AttPanic(rd.rest \o bus.late, <<ew, er>>)
     ELSE IF dec.kind = "err" THEN AttErr(dec.err, rd.rest \o bus.late, <<ew, er>>)
     ELSE AttOk(ParamsToVec(dec.params, count), rd.rest \o bus.late, <<ew, er>>)

\* write1(port, id, address, data) of the V2 master
write1(w, bus, id, address, data) ==
  LET params == to_le_bytes(address) \o data
      enc == encode_instruction_v2(V2BufLen, id, OPCODE_WRITE, params)
      ew == IoWrite(enc.frame, Len(w))
      w1 == w \o bus.now
      len_read == 11
      rd == read_exact(w1, len_read)
      er == IoRead(len_read, rd.bytes)
      buffer == Store(enc.frame, rd.bytes)
      dec == decode_status_v2(buffer, V2BufLen, params)
  IN IF 2 + Len(data) > V2BufLen \/ enc.panic THEN AttPanic(w, <<>>)
     ELSE IF ~bus.wok THEN AttErr(ErrIo, w, <<ew>>)
     ELSE IF ~rd.ok THEN AttErr(ErrTimedOut, rd.rest \o bus.late, <<ew, er>>)
     ELSE IF dec.kind = "panic" THEN AttPanic(rd.rest \o bus.late, <<ew, er>>)
     ELSE IF dec.kind = "err" THEN AttErr(dec.err, rd.rest \o bus.late, <<ew, er>>)
     ELSE AttOk(<<>>, rd.rest \o bus.late, <<ew, er>>)

\* The (id, data[i]) pairs of a sync-write request, for the first n ids.
RECURSIVE SyncWriteBody(_, _, _)
SyncWriteBody(ids, data, n) ==
  IF n = 0 THEN <<>>
  ELSE SyncWriteBody(ids, data, n - 1) \o <<ids[n]>> \o data[n]

\* Mutant of sync_write1: the frame is addressed to the first id of the list.
sync_write1_ToFirstId(w, bus, ids, address, data) ==
  LET params == to_le_bytes(address) \o to_le_bytes(Len(data[1]) % 65536)
                  \o SyncWriteBody(ids, data, Len(ids))
      enc == encode_instruction_v2(V2BufLen, ids[1], OPCODE_SYNC_WRITE, params)
      ew == IoWrite(enc.frame, Len(w))
  IN IF data = <<>> THEN AttPanic(w, <<>>)
     ELSE IF Len(ids) # Len(data) THEN AttErr(ErrInvalidArg, w, <<>>)
     ELSE IF enc.panic THEN AttPanic(w, <<>>)
     ELSE IF ~bus.wok THEN AttErr(ErrIo, w, <<ew>>)
     ELSE AttOk(<<>>, w \o bus.now \o bus.late, <<ew>>)

\* sync_write1(port, ids, address, data)
sync_write1(w, bus, ids, address, data) ==
  LET params == to_le_bytes(address) \o to_le_bytes(Len(data[1]) % 65536)
                  \o SyncWriteBody(ids, data, Len(ids))
      enc == encode_instruction_v2(V2BufLen, BROADCAST_ID, OPCODE_SYNC_WRITE, params)
      ew == IoWrite(enc.frame, Len(w))
  IN IF data = <<>> THEN AttPanic(w, <<>>)
     ELSE IF Len(ids) # Len(data) THEN AttErr(ErrInvalidArg, w, <<>>)
     ELSE IF Len(params) > V2BufLen THEN AttErr(ErrIo, w, <<>>)
     ELSE IF enc.panic THEN AttPanic(w, <<>>)
     ELSE IF ~bus.wok THEN AttErr(ErrIo, w, <<ew>>)
     ELSE AttOk(<<>>, w \o bus.now \o bus.late, <<ew>>)

\* `for _ in ids { read_exact; decode; push }` of sync_read1, from the i-th id on.
\* st: the pending bytes, buffer, params, result and log so far.
RECURSIVE SyncReadLoop(_, _, _, _, _)
SyncReadLoop(i, n, len_read, count, st) ==
  IF i > n THEN AttOk(st.result, st.w, st.io)
  ELSE LET rd == read_exact(st.w, len_read)
           log == Append(st.io, IoRead(len_read, rd.bytes))
           buffer == Store(st.buffer, rd.bytes)
           dec == decode_status_v2(buffer, V2BufLen, st.params)
       IN IF ~rd.ok THEN AttErr(ErrTimedOut, rd.rest, log)
          ELSE IF dec.kind = "panic" THEN AttPanic(rd.rest, log)
          ELSE IF dec.kind = "err" THEN AttErr(dec.err, rd.rest, log)
          ELSE SyncReadLoop(i + 1, n, len_read, count,
                 [w |-> rd.rest, buffer |-> buffer, params |-> dec.params,
                  result |-> Append(st.result, ParamsToVec(dec.params, count)),
                  io |-> log])

\* sync_read1(port, ids, address, count)
sync_read1(w, bus, ids, address, count) ==
  LET params == to_le_bytes(address) \o to_le_bytes(count) \o ids
      enc == encode_instruction_v2(V2BufLen, BROADCAST_ID, OPCODE_SYNC_READ, params)
      ew == IoWrite(enc.frame, Len(w))
      len_read == CheckedAdd(11, count, 65536)
      run == SyncReadLoop(1, Len(ids), len_read.v, count,
               [w |-> w \o bus.now, buffer |-> enc.frame, params |-> params,
                result |-> <<>>, io |-> <<ew>>])
  IN IF Len(params) > V2BufLen THEN AttErr(ErrIo, w, <<>>)
     ELSE IF enc.panic THEN AttPanic(w, <<>>)
     ELSE IF ~bus.wok THEN AttErr(ErrIo, w, <<ew>>)
     ELSE IF len_read.panic \/ len_read.v > V2BufLen
     THEN AttPanic(w \o bus.now \o bus.late, <<ew>>)
     ELSE [run EXCEPT !.wire = run.wire \o bus.late]

\* -------------------------------------------------------------- the bus

\* Largest read a device answers with data; a longer one gets an error status.
DeviceMaxRead == 249

\* What the bus may do with one frame.  Spoiling an attempt: the write fails,
\* nobody answers, the answer is corrupted, the device reports an error, the
\* answer comes after the read deadline.  Otherwise the device answers, possibly
\* followed by a stray byte, possibly with one parameter byte fewer than asked.
FaultKinds == {"wfail", "silent", "badcrc", "status", "late", "badlen"}
OkKinds == {"good", "extra", "short"}
\* Error byte of a device-reported error (instruction error bit) and line noise.
DeviceErrors == {64}
StrayBytes == {0}

\* Register contents a device returns for a read.
DeviceData(id, address, count) ==
  IF count > DeviceMaxRead THEN <<>>
  ELSE [i \in 1..count |-> (17 * id + address + i) % 256]

DeviceStatus(count) == IF count > DeviceMaxRead THEN CHOOSE b \in DeviceErrors : TRUE ELSE 0

StatusFrame(v, id, status, params) ==
  IF v = 1 THEN StatusFrameV1(id, status, params) ELSE StatusFrameV2(id, status, params)

\* A frame whose length field arrives as FF (V1) or F9 FF (V2).
BadLength(v, frame) ==
  IF v = 1 THEN [frame EXCEPT ![4] = 255] ELSE [frame EXCEPT ![6] = 249, ![7] = 255]

\* The bytes one device puts on the bus in time for the read.
DeviceReply(kind, v, id, status, params) ==
  LET good == StatusFrame(v, id, status, params)
      stray == CHOOSE b \in StrayBytes : TRUE
  IN CASE kind = "good" -> good
       [] kind = "badcrc" -> [good EXCEPT ![Len(good)] = (@ + 1) % 256]
       [] kind = "status" -> StatusFrame(v, id, CHOOSE b \in DeviceErrors : TRUE, params)
       [] kind = "badlen" -> BadLength(v, good)
       [] kind = "extra" -> good \o <<stray>>
       [] kind = "short" ->
            IF params = <<>> THEN good
            ELSE StatusFrame(v, id, status, SubSeq(params, 1, Len(params) - 1)) \o <<stray>>
       [] OTHER -> <<>>

\* The bytes it puts on the bus after the read deadline.
DeviceLate(kind, v, id, status, params) ==
  IF kind = "late" THEN StatusFrame(v, id, status, params) ELSE <<>>

\* The bus after a unicast instruction to id answered with params.
Bus(kind, v, id, status, params) ==
  [wok |-> kind # "wfail",
   now |-> DeviceReply(kind, v, id, status, params),
   late |-> DeviceLate(kind, v, id, status, params)]

\* The bus after a broadcast write: no device answers.
BusBroadcast(kind) == [wok |-> kind # "wfail", now |-> <<>>, late |-> <<>>]

\* The bus after a sync-read: every listed device answers in list order; the
\* device at position `at` behaves as `kind`, the others answer well.
RECURSIVE SyncReplies(_, _, _, _, _, _)
SyncReplies(kind, at, ids, address, count, n) ==
  IF n = 0 THEN [now |-> <<>>, late |-> <<>>]
  ELSE LET rest == SyncReplies(kind, at, ids, address, count, n - 1)
           k == IF n = at THEN kind ELSE "good"
           data == DeviceData(ids[n], address, count)
       IN [now |-> rest.now \o DeviceReply(k, 2, ids[n], DeviceStatus(count), data),
           late |-> rest.late \o DeviceLate(k, 2, ids[n], DeviceStatus(count), data)]

BusSync(kind, at, ids, address, count) ==
  LET r == SyncReplies(kind, at, ids, address, count, Len(ids))
  IN [wok |-> kind # "wfail", now |-> r.now, late |-> r.late]

\* ---------------------------------------------------------------- inputs

\* Unicast ids the caller addresses.
Ids == {1}
\* <<address, count>> of a V1 read, around the limits 0xFE, 0xFF and 249/250.
V1ReadArgs == {<<43, 0>>, <<43, 1>>, <<0, 249>>, <<43, 250>>, <<254, 255>>,
               <<254, 256>>, <<255, 1>>, <<255, 256>>, <<256, 0>>, <<256, 256>>}
\* <<address, data>> of a V1 write, around the limit 0xFF.
V1WriteArgs == {<<24, <<>>>>, <<24, <<1>>>>, <<255, <<1, 2>>>>, <<256, <<1>>>>}
\* <<address, count>> of a V2 read, around the limit 65524/65525.
V2ReadArgs == {<<64, 0>>, <<64, 1>>, <<64, 2>>, <<256, 65525>>, <<64, 65535>>}
V2WriteArgs == {<<64, <<>>>>, <<64, <<1, 2, 3, 4>>>>}
\* <<ids, data>> of a sync-write.
SyncWriteArgs == {<< <<1>>, << <<5>> >> >>,
                  << <<1, 2>>, << <<5>>, <<6>> >> >>,
                  << <<1, 2>>, << <<5>> >> >>,
                  << <<1>>, << <<5>>, <<6>> >> >>,
                  << <<1, 2>>, << <<5>>, <<6, 7>> >> >>,
                  << <<1>>, <<>> >>,
                  << <<>>, <<>> >>}
SyncWriteAddress == {100}
\* ids and <<address, count>> of a sync-read.
SyncReadIds == {<<>>, <<1>>, <<1, 2>>}
SyncReadArgs == {<<132, 0>>, <<132, 1>>, <<132, 2>>, <<132, 65535>>}

\* ------------------------------------------------------------- operations

NoOp == [name |-> "none", id |-> 0, address |-> 0, count |-> 0, ids |-> <<>>, data |-> <<>>]
NoRet == [kind |-> "none", err |-> None, data |-> <<>>]
RetOk(data) == [kind |-> "ok", err |-> None, data |-> data]
RetErr(e) == [kind |-> "err", err |-> e, data |-> <<>>]
RetPanic == [kind |-> "panic", err |-> None, data |-> <<>>]

\* No register found (Option::None of find_register) and no command in progress.
NoReg == [model |-> "", name |-> "", proto |-> 0, address |-> 0, size |-> "Variable"]
CmdNone == [kind |-> "none", msg |-> ""]
NoCmd ==
  [name |-> "none", reg |-> NoReg, ids |-> <<>>, value |-> 0, k |-> 0, res |-> <<>>,
   ret |-> CmdNone]

\* No scan is in progress.
NoScan == [start |-> 0, end |-> 0, id |-> 0, result |-> <<>>]

\* No event of the slave engine yet.
NoEvent == [rd |-> "none", act |-> "none", scanned |-> <<>>, n |-> 0]

\* No slave engine has been constructed on the port.
NoSlave ==
  /\ crate = "lib"
  /\ deq = <<>>
  /\ loc = [id |-> 0, len |-> 0]
  /\ spc = "none"
  /\ sret = NoRet
  /\ source = <<>>
  /\ fed = <<>>
  /\ chunks = 0
  /\ delivered = <<>>
  /\ sent = <<>>
  /\ last = NoEvent
  /\ ioErrs = 0
  /\ status_variants = FALSE
  /\ heard = <<>>

\* No codec function is being applied on its own.
NoCall ==
  [fn |-> "none", id |-> 0, op |-> 0, n |-> 0, seed |-> 0, step |-> 0, pos |-> 0, val |-> 0]
NoResult == [kind |-> "none", err |-> None, n |-> 0, frame |-> <<>>, params |-> <<>>]
NoCodec == cin = NoCall /\ cout = NoResult

Init ==
  /\ version \in {1, 2}
  /\ retries \in 0..MaxRetries
  /\ overflow_checks \in BOOLEAN
  /\ pc = "idle"
  /\ op = NoOp
  /\ attempt = 0
  /\ error = None
  /\ ret = NoRet
  /\ wire = <<>>
  /\ outcomes = <<>>
  /\ io = <<>>
  /\ failFirst = 0
  /\ scan = NoScan
  /\ cmd = NoCmd
  /\ NoSlave
  /\ NoCodec

\* Mutant of RetryRange: one iteration too many.
RetryRangeOneMore(r) == 0..(r + 1)

\* The iterations of `for _ in 0..=self.retries`.
RetryRange(r) == 0..r

\* Mutant of HoldError: the first error is kept.
HoldFirstError(held, e) == IF held = None THEN e ELSE held

\* `Err(e) => error = Some(e)`
HoldError(held, e) == e

\* `Err(error.unwrap())`
Unwrap(held) == IF held = None THEN RetPanic ELSE RetErr(held)

\* Mutant of V1ReadCheck: the address limit of write (0xFF) used for read.
V1ReadCheckWriteLimit(address, count) ==
  IF address > 255 THEN ErrInvalidAddress
  ELSE IF count > 255 THEN ErrInvalidCount
  ELSE None

\* The argument checks ahead of the loop of ProtocolV1::read.
V1ReadCheck(address, count) ==
  IF address > 254 THEN ErrInvalidAddress
  ELSE IF count > 255 THEN ErrInvalidCount
  ELSE None

\* Mutant of V1WriteCheck: the address error reported as InvalidCount.
V1WriteCheckAsCount(address) ==
  IF address > 255 THEN ErrInvalidCount ELSE None

\* The argument check ahead of the loop of ProtocolV1::write.
V1WriteCheck(address) ==
  IF address > 255 THEN ErrInvalidAddress ELSE None

\* Entry of an operation whose argument checks gave chk: it returns the error,
\* or enters the retry loop with `error = None`.  The bus spoils k attempts.
Enter(o, chk, k) ==
  /\ pc = "idle"
  /\ op' = o
  /\ failFirst' = k
  /\ attempt' = 0
  /\ error' = None
  /\ IF chk # None THEN pc' = "done" /\ ret' = RetErr(chk)
     ELSE IF 0 \notin RetryRange(retries) THEN pc' = "done" /\ ret' = Unwrap(None)
     ELSE pc' = "loop" /\ ret' = NoRet
  /\ UNCHANGED <<version, retries, overflow_checks, wire, outcomes, io, scan, cmd>>
  /\ UNCHANGED <<slaveVars, codecVars>>

\* One iteration of the retry loop, the attempt having ended as att:
\* `Ok(data) => return Ok(data)`, `Err(e) => error = Some(e)`, and after the
\* last iteration `Err(error.unwrap())`.
LoopStep(att) ==
  /\ pc = "loop"
  /\ outcomes' = Append(outcomes, [kind |-> att.kind, err |-> att.err])
  /\ io' = io \o [i \in 1..Len(att.io) |->
                    [t |-> att.io[i].t, n |-> att.io[i].n, bytes |-> att.io[i].bytes,
                     pending |-> att.io[i].pending, a |-> attempt + 1]]
  /\ wire' = att.wire
  /\ attempt' = attempt + 1
  /\ IF att.kind = "ok"
     THEN pc' = "done" /\ ret' = RetOk(att.data) /\ error' = error
     ELSE IF att.kind = "panic"
     THEN pc' = "done" /\ ret' = RetPanic /\ error' = error
     ELSE /\ error' = HoldError(error, att.err)
          /\ IF attempt + 1 \in RetryRange(retries)
             THEN pc' = "loop" /\ ret' = ret
             ELSE pc' = "done" /\ ret' = Unwrap(error')
  /\ UNCHANGED <<version, retries, overflow_checks, op, failFirst, scan, cmd>>
  /\ UNCHANGED <<slaveVars, codecVars>>

\* What the bus may do at the next attempt: it spoils the first failFirst.
Kinds == IF attempt < failFirst THEN FaultKinds ELSE OkKinds

\* ProtocolV1::read
V1Read ==
  /\ version = 1
  /\ \E id \in Ids, a \in V1ReadArgs, k \in 0..MaxFail :
       Enter([NoOp EXCEPT !.name = "read", !.id = id, !.address = a[1], !.count = a[2]],
             V1ReadCheck(a[1], a[2]), k)

V1ReadAttempt ==
  /\ version = 1 /\ op.name = "read"
  /\ \E kind \in Kinds :
       LoopStep(read_v1(wire,
                        Bus(kind, 1, op.id, DeviceStatus(op.count),
                            DeviceData(op.id, op.address, op.count)),
                        op.id, op.address % 256, op.count % 256))

\* ProtocolV1::write
V1Write ==
  /\ version = 1
  /\ \E id \in Ids, a \in V1WriteArgs, k \in 0..MaxFail :
       Enter([NoOp EXCEPT !.name = "write", !.id = id, !.address = a[1], !.data = a[2]],
             V1WriteCheck(a[1]), k)

V1WriteAttempt ==
  /\ version = 1 /\ op.name = "write"
  /\ \E kind \in Kinds :
       LoopStep(write_v1(wire, Bus(kind, 1, op.id, 0, <<>>),
                         op.id, op.address % 256, op.data))

\* ProtocolV2::read
V2Read ==
  /\ version = 2
  /\ \E id \in Ids, a \in V2ReadArgs, k \in 0..MaxFail :
       Enter([NoOp EXCEPT !.name = "read", !.id = id, !.address = a[1], !.count = a[2]],
             None, k)

V2ReadAttempt ==
  /\ version = 2 /\ op.name = "read"
  /\ \E kind \in Kinds :
       LoopStep(read1(wire,
                      Bus(kind, 2, op.id, DeviceStatus(op.count),
                          DeviceData(op.id, op.address, op.count)),
                      op.id, op.address, op.count))

\* ProtocolV2::write
V2Write ==
  /\ version = 2
  /\ \E id \in Ids, a \in V2WriteArgs, k \in 0..MaxFail :
       Enter([NoOp EXCEPT !.name = "write", !.id = id, !.address = a[1], !.data = a[2]],
             None, k)

V2WriteAttempt ==
  /\ version = 2 /\ op.name = "write"
  /\ \E kind \in Kinds :
       LoopStep(write1(wire, Bus(kind, 2, op.id, 0, <<>>), op.id, op.address, op.data))

\* ProtocolV2::sync_write
V2SyncWrite ==
  /\ version = 2
  /\ \E a \in SyncWriteArgs, addr \in SyncWriteAddress, k \in 0..MaxFail :
       Enter([NoOp EXCEPT !.name = "sync_write", !.id = BROADCAST_ID, !.address = addr,
                          !.ids = a[1], !.data = a[2]],
             None, k)

V2SyncWriteAttempt ==
  /\ version = 2 /\ op.name = "sync_write"
  /\ \E kind \in Kinds :
       LoopStep(sync_write1(wire, BusBroadcast(kind), op.ids, op.address, op.data))

\* ProtocolV2::sync_read
V2SyncRead ==
  /\ version = 2
  /\ \E ids \in SyncReadIds, a \in SyncReadArgs, k \in 0..MaxFail :
       Enter([NoOp EXCEPT !.name = "sync_read", !.id = BROADCAST_ID, !.address = a[1],
                          !.count = a[2], !.ids = ids],
             None, k)

V2SyncReadAttempt ==
  /\ version = 2 /\ op.name = "sync_read"
  /\ \E kind \in Kinds, at \in 1..Len(op.ids) \cup {1} :
       LoopStep(sync_read1(wire, BusSync(kind, at, op.ids, op.address, op.count),
                           op.ids, op.address, op.count))

\* ping_v1(port, id)
ping_v1(w, bus, id) ==
  LET enc == encode_instruction_v1(V1BufLen, id, OPCODE_PING, <<>>)
      ew == IoWrite(enc.frame, Len(w))
      w1 == w \o bus.now
      len_read == 6
      rd == read_exact(w1, len_read)
      er == IoRead(len_read, rd.bytes)
      buffer == Store(enc.frame, rd.bytes)
      dec == decode_status_v1(buffer, V1BufLen, <<>>)
  IN IF ~bus.wok THEN AttErr(ErrIo, w, <<ew>>)
     ELSE IF ~rd.ok THEN AttErr(ErrTimedOut, rd.rest \o bus.late, <<ew, er>>)
     ELSE IF dec.kind = "err" THEN AttErr(dec.err, rd.rest \o bus.late, <<ew, er>>)
     ELSE AttOk(<<>>, rd.rest \o bus.late, <<ew, er>>)

\* ping(port, id) of the V2 master
ping(w, bus, id) ==
  LET enc == encode_instruction_v2(V2BufLen, id, OPCODE_PING, <<>>)
      ew == IoWrite(enc.frame, Len(w))
      w1 == w \o bus.now
      len_read == 14
      rd == read_exact(w1, len_read)
      er == IoRead(len_read, rd.bytes)
      buffer == Store(enc.frame, rd.bytes)
      dec == decode_status_v2(buffer, V2BufLen, <<>>)
  IN IF ~bus.wok THEN AttErr(ErrIo, w, <<ew>>)
     ELSE IF ~rd.ok THEN AttErr(ErrTimedOut, rd.rest \o bus.late, <<ew, er>>)
     ELSE IF dec.kind = "panic" THEN AttPanic(rd.rest \o bus.late, <<ew, er>>)
     ELSE IF dec.kind = "err" THEN AttErr(dec.err, rd.rest \o bus.late, <<ew, er>>)
     ELSE AttOk(<<>>, rd.rest \o bus.late, <<ew, er>>)

\* The ids that have a device on the bus, and what a device answers to a
\* ping: nothing on Protocol 1; on Protocol 2 device 1 answers with its model
\* number and firmware version (a 14-byte status packet) and device 2 with the
\* minimal status packet of 11 bytes.
Devices == {1, 2}
PingParams(v, id) == IF v = 1 \/ id = 2 THEN <<>> ELSE <<6, 4, 38>>

\* <<scan_start, scan_end>> of a scan.
ScanArgs == {<<1, 3>>, <<0, 2>>, <<2, 4>>, <<2, 2>>, <<3, 1>>}

\* ProtocolV1::scan / ProtocolV2::scan, up to the first ping.
Scan ==
  /\ pc = "idle"
  /\ \E a \in ScanArgs, k \in 0..MaxFail :
       /\ op' = [NoOp EXCEPT !.name = "scan"]
       /\ scan' = [start |-> a[1], end |-> a[2], id |-> a[1], result |-> <<>>]
       /\ failFirst' = k
       /\ IF a[1] >= a[2] THEN pc' = "done" /\ ret' = RetOk(<<>>)
          ELSE pc' = "scan" /\ ret' = NoRet
  /\ attempt' = 0
  /\ error' = None
  /\ UNCHANGED <<version, retries, overflow_checks, wire, outcomes, io, cmd>>
  /\ UNCHANGED <<slaveVars, codecVars>>

\* The loop of scan moves on to the next id, the list being `result`.
ScanAdvance(result) ==
  /\ attempt' = 0
  /\ IF scan.id + 1 >= scan.end
     THEN pc' = "done" /\ ret' = RetOk(result) /\ scan' = [scan EXCEPT !.result = result]
     ELSE pc' = "scan" /\ ret' = ret
          /\ scan' = [scan EXCEPT !.id = scan.id + 1, !.result = result]

\* One iteration of `for _ in 0..=self.retries` inside scan, the ping having
\* ended as att: `if ping(..).is_ok() { result.push(id); break; }`.
ScanStep(att) ==
  /\ pc = "scan"
  /\ outcomes' = Append(outcomes, [kind |-> att.kind, err |-> att.err])
  /\ io' = io \o [i \in 1..Len(att.io) |->
                    [t |-> att.io[i].t, n |-> att.io[i].n, bytes |-> att.io[i].bytes,
                     pending |-> att.io[i].pending, a |-> Len(outcomes) + 1]]
  /\ wire' = att.wire
  /\ IF att.kind = "ok" THEN ScanAdvance(Append(scan.result, scan.id))
     ELSE IF att.kind = "panic"
     THEN pc' = "done" /\ ret' = RetPanic /\ attempt' = attempt /\ scan' = scan
     ELSE IF attempt + 1 \in RetryRange(retries)
     THEN pc' = "scan" /\ ret' = ret /\ attempt' = attempt + 1 /\ scan' = scan
     ELSE ScanAdvance(scan.result)
  /\ UNCHANGED <<version, retries, overflow_checks, op, error, failFirst, cmd>>
  /\ UNCHANGED <<slaveVars, codecVars>>

\* What the bus may do at the next ping: an id without a device stays silent.
PingKinds == IF scan.id \in Devices THEN Kinds ELSE {"silent"}

\* One ping of scan.
ScanPing ==
  \E kind \in PingKinds :
    LET bus == Bus(kind, version, scan.id, 0, PingParams(version, scan.id))
    IN ScanStep(IF version = 1 THEN ping_v1(wire, bus, scan.id) ELSE ping(wire, bus, scan.id))

ScanNext == Scan \/ ScanPing

\* The engine running scan.
ScanSpec == Init /\ [][ScanNext]_vars

Next ==
  \/ V1Read \/ V1ReadAttempt
  \/ V1Write \/ V1WriteAttempt
  \/ V2Read \/ V2ReadAttempt
  \/ V2Write \/ V2WriteAttempt
  \/ V2SyncWrite \/ V2SyncWriteAttempt
  \/ V2SyncRead \/ V2SyncReadAttempt

Spec == Init /\ [][Next]_vars

\* ------------------------------------------------- read-reg and write-reg

\* `reg.size as u16`: the discriminants of RegSize.
RegSizeAs(size) ==
  CASE size = "Byte" -> 1 [] size = "Half" -> 2 [] size = "Word" -> 4 [] size = "Variable" -> 0

\* The register catalog REGS: the device model "m" with one register of each
\* size per protocol, and the device model "n" whose register id sits at
\* another address.
REGS ==
  {[model |-> n[1], name |-> n[2], proto |-> v, address |-> n[3], size |-> n[4]] :
     v \in {1, 2},
     n \in {<<"m", "id", 3, "Byte">>, <<"m", "goal", 30, "Half">>,
            <<"m", "position", 132, "Word">>, <<"m", "table", 64, "Variable">>,
            <<"n", "id", 7, "Byte">>}}

\* RegSpec { model, name }
RegSpec(model, name) == [model |-> model, name |-> name]

\* The register specifications a command is given: registers of the catalog,
\* a name no model has, a name the given model does not have, a model the
\* catalog does not know.
RegSpecs ==
  {RegSpec("m", "id"), RegSpec("m", "goal"), RegSpec("m", "position"),
   RegSpec("m", "table"), RegSpec("m", "nosuch"), RegSpec("n", "id"),
   RegSpec("n", "goal"), RegSpec("x", "id")}
\* The id lists and the values a command is given.
CmdIds == {<<1>>, <<1, 2>>}
CmdValues == {5, 70000}
\* How many leading attempts of one operation of a command the bus may spoil.
CmdFail == {0, 1}

\* The filter of find_register.
RegMatches(reg, proto, regspec) ==
  reg.proto = proto /\ reg.model = regspec.model /\ reg.name = regspec.name

\* regs::find_register(proto, regspec): the first register of REGS that passes
\* the filter (the catalog has one at most), or None.
find_register(proto, regspec) ==
  IF \E reg \in REGS : RegMatches(reg, proto, regspec)
  THEN CHOOSE reg \in REGS : RegMatches(reg, proto, regspec)
  ELSE NoReg

\* What a command returns: Ok, an anyhow error, or a panic that aborts the program.
CmdOk == [kind |-> "ok", msg |-> ""]
CmdErr(msg) == [kind |-> "err", msg |-> msg]
CmdPanic(msg) == [kind |-> "panic", msg |-> msg]

\* A command is in progress and has not returned.
Running(name) == cmd.name = name /\ cmd.ret = CmdNone

\* u8 / u16 / u32::from_le_bytes of the first n bytes, as its two 16-bit halves.
RECURSIVE IntFromLe(_, _)
IntFromLe(bytes, n) ==
  IF n = 0 \/ bytes = <<>> THEN 0 ELSE bytes[1] + 256 * IntFromLe(Tail(bytes), n - 1)
U32FromLe(bytes, n) ==
  [lo |-> IntFromLe(bytes, IF n < 2 THEN n ELSE 2),
   hi |-> IF n > 2 THEN IntFromLe(SubSeq(bytes, 3, n), n - 2) ELSE 0]

\* value.to_le_bytes() in n bytes.
RECURSIVE IntToLe(_, _)
IntToLe(value, n) == IF n = 0 THEN <<>> ELSE <<value % 256>> \o IntToLe(value \div 256, n - 1)

\* The start of a command: find_register(..).ok_or(anyhow!("Register not found"))?
CmdStart(name, ids, regspec, value) ==
  LET reg == find_register(version, regspec)
  IN /\ pc = "idle" /\ cmd = NoCmd
     /\ cmd' = [name |-> name, reg |-> reg, ids |-> ids, value |-> value, k |-> 1,
                res |-> <<>>,
                ret |-> IF reg = NoReg THEN CmdErr("Register not found") ELSE CmdNone]
     /\ UNCHANGED <<version, wire, retries, overflow_checks, pc, op, attempt, error, ret,
                    outcomes, io, failFirst, scan>>
     /\ UNCHANGED <<slaveVars, codecVars>>

\* The command moves on after the operation for ids[k]: to the next id, or it returns.
CmdAdvance(c) ==
  IF c.k = Len(c.ids) THEN [c EXCEPT !.ret = CmdOk] ELSE [c EXCEPT !.k = c.k + 1]

\* The operation of the engine has returned to the command.
CmdBack ==
  /\ pc' = "idle" /\ op' = NoOp /\ ret' = NoRet
  /\ UNCHANGED <<version, wire, retries, overflow_checks, attempt, error, outcomes, io,
                 failFirst, scan>>
  /\ UNCHANGED <<slaveVars, codecVars>>

\* cmd_read_reg
CmdReadReg ==
  \E ids \in CmdIds, regspec \in RegSpecs : CmdStart("read-reg", ids, regspec, 0)

\* cmd_read_reg: proto.read(id, reg.address, reg.size as u16) for the next id.
CmdReadCall ==
  /\ Running("read-reg")
  /\ \E k \in CmdFail :
       Enter([NoOp EXCEPT !.name = "read", !.id = cmd.ids[cmd.k],
                          !.address = cmd.reg.address, !.count = RegSizeAs(cmd.reg.size)],
             IF version = 1 THEN V1ReadCheck(cmd.reg.address, RegSizeAs(cmd.reg.size)) ELSE None,
             k)

\* cmd_read_reg: the read has returned; `?` on its error, `match reg.size` on its bytes.
CmdReadMatch ==
  /\ Running("read-reg") /\ pc = "done"
  /\ cmd' = IF ret.kind = "panic" THEN [cmd EXCEPT !.ret = CmdPanic("read")]
            ELSE IF ret.kind = "err"
            THEN [cmd EXCEPT !.ret = CmdErr("Failed to read register from id")]
            ELSE IF cmd.reg.size = "Variable"
            THEN [cmd EXCEPT !.ret = CmdPanic("variable size registers not supported!")]
            ELSE IF Len(ret.data) < RegSizeAs(cmd.reg.size)
            THEN [cmd EXCEPT !.ret = CmdPanic("range end index out of range")]
            ELSE CmdAdvance([cmd EXCEPT
                   !.res = Append(@, U32FromLe(ret.data, RegSizeAs(cmd.reg.size)))])
  /\ CmdBack

\* cmd_write_reg
CmdWriteReg ==
  \E ids \in CmdIds, regspec \in RegSpecs, value \in CmdValues :
    CmdStart("write-reg", ids, regspec, value)

\* cmd_write_reg: `match reg.size` for the next id, up to the call of proto.write.
CmdWriteCall ==
  /\ Running("write-reg")
  /\ pc = "idle"
  /\ LET n == RegSizeAs(cmd.reg.size)
         stop(r) == /\ cmd' = [cmd EXCEPT !.ret = r]
                    /\ UNCHANGED <<version, wire, retries, overflow_checks, pc, op, attempt,
                                   error, ret, outcomes, io, failFirst, scan>>
                    /\ UNCHANGED <<slaveVars, codecVars>>
     IN IF cmd.reg.size = "Variable"
        THEN stop(CmdPanic("variable size registers not supported!"))
        ELSE IF (cmd.reg.size = "Byte" /\ cmd.value > 255)
                  \/ (cmd.reg.size = "Half" /\ cmd.value > 65535)
        THEN stop(CmdErr("out of range integral type conversion attempted"))
        ELSE \E k \in CmdFail :
               Enter([NoOp EXCEPT !.name = "write", !.id = cmd.ids[cmd.k],
                                  !.address = cmd.reg.address, !.data = IntToLe(cmd.value, n)],
                     IF version = 1 THEN V1WriteCheck(cmd.reg.address) ELSE None,
                     k)

\* cmd_write_reg: the write has returned.
CmdWriteDone ==
  /\ Running("write-reg") /\ pc = "done"
  /\ cmd' = IF ret.kind = "panic" THEN [cmd EXCEPT !.ret = CmdPanic("write")]
            ELSE IF ret.kind = "err"
            THEN [cmd EXCEPT !.ret = CmdErr("Failed to write register to id")]
            ELSE CmdAdvance(cmd)
  /\ CmdBack

CmdNext ==
  \/ CmdReadReg \/ CmdReadCall \/ CmdReadMatch
  \/ CmdWriteReg \/ CmdWriteCall \/ CmdWriteDone
  \/ V1ReadAttempt \/ V2ReadAttempt \/ V1WriteAttempt \/ V2WriteAttempt

\* The tool running one read-reg or write-reg command.
CmdSpec == Init /\ [][CmdNext]_vars

\* ------------------------------------------------------------ slave engine

\* Hard I/O errors the port raises in one run, at most.
MaxIoErrors == 1
\* recv_instruction calls in one run, at most.
MaxCalls == 2
\* The bus brings at most this many bytes at a time, or all that is left.
MaxChunk == 2
\* A stream longer than this arrives in one piece, or its first header prefix
\* (4 bytes on V1, 7 on V2) arrives first and the rest in one piece.
MaxSplitLen == 16

\* enum Opcode
Opcodes == {1, 2, 3, 4, 5, 6, 8, 16, 32, 130, 131, 138, 146, 147, 154}

\* Opcode::StatusV1 and Opcode::StatusV2, the variants the engines of
\* dynamixel-lib compare the opcode with.  The enum of slave/mod.rs does not
\* declare them; an enum that does gives them the opcode byte of a status
\* packet of each protocol.
StatusV1 == 0
StatusV2 == STATUS_MARK

\* The discriminants of the enum Opcode a crate is built with: those of
\* slave/mod.rs, and in a build of dynamixel-lib whose enum declares the two
\* status variants, these too.
Discriminants(c, withStatus) ==
  IF c = "lib" /\ withStatus THEN Opcodes \cup {StatusV1, StatusV2} ELSE Opcodes

\* Opcode::from_u8(b), derived by FromPrimitive, in the given crate: the
\* opcode, or -1 for None.
Opcode_from_u8(c, b) ==
  IF b \in Discriminants(c, status_variants) THEN b ELSE -1

\* The prefix that tells the frame length: ensure_buffer(4) on V1, ensure_buffer(7) on V2.
HeaderLen(v) == IF v = 1 THEN 4 ELSE 7

\* self.buf: [u8; 256] on V1, [u8; 65536] on V2.
SlaveBufLen(v) == IF v = 1 THEN 256 ELSE 65536

\* What `timeout(100 ms, port.read(buf[0..to_read]))` of dynamixel-lib and
\* `timeout(100 ms, port.read_exact(buf[0..to_read]))` of dynamixel-utils can
\* give when the port holds the bytes w: read returns what is there, up to
\* to_read bytes; read_exact returns to_read bytes or is cancelled by the
\* deadline with the bytes it took so far; either can fail with a hard error.
PortRead(c, w, to_read) ==
  LET k == IF Len(w) < to_read THEN Len(w) ELSE to_read
      got == [r |-> IF k = to_read THEN "full" ELSE "short",
              bytes |-> SubSeq(w, 1, k), rest |-> SubSeq(w, k + 1, Len(w))]
      expired == [r |-> "timeout", bytes |-> w, rest |-> <<>>]
      failed == [r |-> "ioerr", bytes |-> <<>>, rest |-> w]
  IN (IF c = "lib"
      THEN (IF w = <<>> THEN {expired} ELSE {got})
      ELSE (IF Len(w) >= to_read THEN {got} ELSE {expired}))
     \cup (IF ioErrs < MaxIoErrors THEN {failed} ELSE {})

\* The read outcomes ensure_buffer(n) can meet: none when the buffer already
\* holds n bytes, and none when `&mut self.buf[0..to_read]` panics, which is
\* before the read is issued.
ReadOutcomes(c, v, w, d, n) ==
  IF Len(d) >= n \/ n - Len(d) > SlaveBufLen(v)
  THEN {[r |-> "none", bytes |-> <<>>, rest |-> w]}
  ELSE PortRead(c, w, n - Len(d))

\* ensure_buffer(n) on the buffer d, its read having given o.
\* kind: "ok"; "err" (it returned Err); "again" (dynamixel-utils: the deadline
\* expired, the buffer is cleared and the read is issued again).
ensure_buffer(c, v, d, n, o) ==
  IF Len(d) >= n THEN [kind |-> "ok", err |-> None, deq |-> d]
  ELSE IF n - Len(d) > SlaveBufLen(v) THEN [kind |-> "panic", err |-> None, deq |-> d]
  ELSE IF o.r = "full" THEN [kind |-> "ok", err |-> None, deq |-> d \o o.bytes]
  ELSE IF c = "lib"
       THEN [kind |-> "err", err |-> ErrTimedOut, deq |-> IF v = 2 THEN <<>> ELSE d]
  ELSE IF o.r = "ioerr" THEN [kind |-> "err", err |-> ErrIo, deq |-> d]
  ELSE [kind |-> "again", err |-> None, deq |-> <<>>]

\* The checks of recv_instruction between its two awaits, on the buffer d:
\* header bytes, id, declared length.  pop: one byte is popped and the loop
\* restarts.
ScanHeader(v, d) ==
  LET id == IF v = 1 THEN At(d, 2) ELSE At(d, 4)
      len == IF v = 1 THEN At(d, 3) ELSE At(d, 5) + 256 * At(d, 6)
      bad == IF v = 1 THEN At(d, 0) # 255 \/ At(d, 1) # 255
             ELSE At(d, 0) # 255 \/ At(d, 1) # 255 \/ At(d, 2) # 253 \/ At(d, 3) # 0
  IN [pop |-> bad \/ id = 255 \/ len = 0, id |-> id, len |-> len]

\* Mutant of ChecksumBad: no checksum is ever found wrong.
ChecksumNeverBad(v, d, len) == FALSE

\* The checksum test of the frame of declared length len at the head of d:
\* V1 `csum != 0`, V2 `csum != deq[7 + len - 2] | deq[7 + len - 1] << 8`.
ChecksumBad(v, d, len) ==
  IF v = 1
  THEN Not8(WrappingSum(Range(d, 2, 4 + len), len + 2)) # 0
  ELSE Crc16Umts(Range(d, 0, 5 + len), 5 + len)
         # from_le_bytes(At(d, 5 + len), At(d, 6 + len))

\* The checks of recv_instruction after its second await, on the buffer d
\* holding the whole declared frame, with the locals id and len.
ScanFrame(c, v, d, id, len) ==
  LET code == IF v = 1 THEN At(d, 4) ELSE At(d, 7)
      opcode == Opcode_from_u8(c, code)
      short == IF v = 1 THEN len < 2 ELSE len < 3
      data == IF v = 1 THEN Range(d, 5, 3 + len) ELSE Range(d, 8, 5 + len)
      size == IF v = 1 THEN 4 + len ELSE 7 + len
      instr == [version |-> v, id |-> id, opcode |-> opcode, data |-> data]
  IN IF opcode = -1 THEN [act |-> "pop", deq |-> Tail(d), instr |-> instr]
     ELSE IF v = 2 /\ 5 + len > SlaveBufLen(v) THEN [act |-> "panic", deq |-> d, instr |-> instr]
     ELSE IF ChecksumBad(v, d, len) THEN [act |-> "pop", deq |-> Tail(d), instr |-> instr]
     ELSE IF c = "lib" /\ opcode = (IF v = 1 THEN StatusV1 ELSE StatusV2)
          THEN [act |-> "clear", deq |-> <<>>, instr |-> instr]
     ELSE IF short THEN [act |-> "panic", deq |-> d, instr |-> instr]
     ELSE [act |-> "deliver",
           deq |-> IF c = "lib" THEN <<>> ELSE SubSeq(d, len + 4, Len(d)),
           instr |-> instr]

\* What `self.port.write_all(..).await` of send_status can give: the frame is
\* written, or the port fails with a hard error and nothing is written.
PortWrites == {"ok", "ioerr"}

\* send_status(id, status, params): the frame built in self.buf through the
\* Cursor and written to the port, whose write gives wr.  err: the Cursor is
\* full (write_all fails), or the port's write fails; panic: the checksum does
\* not fit in self.buf.  frame: what was written to the port.
send_status(v, id, status, params, wr) ==
  LET end_pos == (IF v = 1 THEN 5 ELSE 9) + Len(params)
      fits == IF v = 1 THEN end_pos < SlaveBufLen(v) ELSE end_pos + 2 <= SlaveBufLen(v)
  IN IF end_pos > SlaveBufLen(v) THEN [kind |-> "err", err |-> ErrIo, frame |-> <<>>]
     ELSE IF ~fits THEN [kind |-> "panic", err |-> None, frame |-> <<>>]
     ELSE IF wr = "ioerr" THEN [kind |-> "err", err |-> ErrIo, frame |-> <<>>]
     ELSE [kind |-> "ok", err |-> None,
           frame |-> IF v = 1 THEN StatusFrameV1(id, status, params)
                     ELSE StatusFrameV2(id, status, params)]

\* ------------------------------------------------- the bus seen by the slave

\* A well-formed instruction frame put on the bus by a master.
WireFrame(v, id, instruction, params) ==
  IF v = 1
  THEN LET body == <<id, (2 + Len(params)) % 256, instruction>> \o params
       IN <<255, 255>> \o body \o <<Not8(WrappingSum(body, Len(body)))>>
  ELSE LET head == <<255, 255, 253, 0, id>> \o to_le_bytes((3 + Len(params)) % 65536)
                     \o <<instruction>> \o params
       IN head \o to_le_bytes(Crc16Umts(head, Len(head)))

\* n zero bytes.
Zeros(n) == [i \in 1..n |-> 0]

\* The frame with its last byte spoiled.
Spoiled(frame) == [frame EXCEPT ![Len(frame)] = (frame[Len(frame)] + 5) % 256]

PingFrame(v) == WireFrame(v, 1, OPCODE_PING, <<>>)
WriteFrame(v) == WireFrame(v, 2, OPCODE_WRITE, IF v = 1 THEN <<30, 5>> ELSE <<30, 0, 5>>)

\* A run of bytes with a header, a declared length too small for an opcode
\* and a checksum (1 on V1, 2 on V2), a known opcode byte and a checksum test
\* that passes: id FD, opcode 01 on V1; id 0E on V2, whose CRC 7C03 has the
\* opcode 03 as its low byte.
ShortFrame(v) ==
  IF v = 1 THEN <<255, 255, 253, 1, 1>> ELSE <<255, 255, 253, 0, 14, 2, 0, 3, 124>>

\* Bytes that precede the first well-formed instruction frame of a stream:
\* nothing, line noise, a frame with a spoiled checksum, the start of a frame
\* that never completes, a run with a declared length too small, and (V2) a
\* status packet of another device.
GarbagePrefixes(v) ==
  IF v = 1
  THEN {<<>>, <<170, 187>>, Spoiled(PingFrame(1)), <<255, 255, 1, 16>>,
        <<255, 255, 1, 8>>, ShortFrame(1)}
  ELSE {<<>>, <<170>>, Spoiled(WriteFrame(2)), <<255, 255, 253, 0, 1, 32, 0>>,
        StatusFrameV2(1, 0, <<>>), ShortFrame(2)}

\* What follows the first well-formed frame: nothing, or a second frame.
Followers(v) == {<<>>, WriteFrame(v)}

\* The longest frame a V1 length byte can declare.
LongFrame == WireFrame(1, 1, OPCODE_WRITE, Zeros(253))

\* <<id, instruction, params>> of instruction frames a master of the version
\* sends: ping, read and write, and on Protocol 2 sync_read and sync_write to
\* the broadcast id.
MasterCalls(v) ==
  IF v = 1
  THEN {<<0, OPCODE_PING, <<>>>>, <<1, OPCODE_READ, <<43, 2>>>>,
        <<253, OPCODE_WRITE, <<24, 1, 2>>>>, <<BROADCAST_ID, OPCODE_WRITE, <<255, 0>>>>}
  ELSE {<<0, OPCODE_PING, <<>>>>, <<1, OPCODE_READ, to_le_bytes(132) \o to_le_bytes(4)>>,
        <<253, OPCODE_WRITE, to_le_bytes(64) \o <<1, 2, 3, 255>>>>,
        <<BROADCAST_ID, OPCODE_SYNC_READ, to_le_bytes(132) \o to_le_bytes(2) \o <<1, 2>>>>,
        <<BROADCAST_ID, OPCODE_SYNC_WRITE,
          to_le_bytes(100) \o to_le_bytes(1) \o <<1, 5, 2, 6>>>>}

\* The frame the master's encoder writes for the call m.
MasterFrame(v, m) ==
  IF v = 1 THEN encode_instruction_v1(V1BufLen, m[1], m[2], m[3]).frame
  ELSE encode_instruction_v2(V2BufLen, m[1], m[2], m[3]).frame

\* The streams the bus may bring to a slave.
SlaveStreams(v) ==
  {g \o PingFrame(v) \o f : g \in GarbagePrefixes(v), f \in Followers(v)}
    \cup (IF v = 1 THEN {LongFrame} ELSE {})
    \cup {MasterFrame(v, m) : m \in MasterCalls(v)}

\* The status replies the application may send.
SlaveStatusArgs ==
  {[id |-> 1, status |-> 0, params |-> <<>>],
   [id |-> 1, status |-> 2, params |-> <<>>],
   [id |-> 1, status |-> 64, params |-> <<>>],
   [id |-> 1, status |-> 0, params |-> <<7>>]}

\* How many bytes the bus may bring at once.
ChunkSizes(src) ==
  {Len(src)} \cup (IF Len(fed) <= MaxSplitLen
                   THEN {k \in 1..MaxChunk : k <= Len(src)}
                   ELSE IF src = fed THEN {HeaderLen(version)} ELSE {})

\* ------------------------------------------------------- slave operations

\* A slave engine freshly constructed on a port (ProtocolV1::new /
\* ProtocolV2::new) whose first recv_instruction call has begun; no master.
SlaveInit ==
  /\ version \in {1, 2}
  /\ crate \in (IF version = 1 THEN {"lib", "utils"} ELSE {"lib"})
  /\ fed \in SlaveStreams(version)
  /\ source = fed
  /\ chunks = 0
  /\ wire = <<>>
  /\ deq = <<>>
  /\ loc = [id |-> 0, len |-> 0]
  /\ spc = "head"
  /\ sret = NoRet
  /\ delivered = <<>>
  /\ sent = <<>>
  /\ last = NoEvent
  /\ ioErrs = 0
  /\ status_variants \in (IF crate = "lib" THEN BOOLEAN ELSE {FALSE})
  /\ heard = <<>>
  /\ retries = 0 /\ overflow_checks = FALSE /\ pc = "idle" /\ op = NoOp
  /\ attempt = 0 /\ error = None /\ ret = NoRet
  /\ outcomes = <<>> /\ io = <<>> /\ failFirst = 0 /\ scan = NoScan /\ cmd = NoCmd
  /\ NoCodec

\* The bus brings the next bytes of the stream to the port.
Arrive ==
  /\ spc # "none"
  /\ source # <<>>
  /\ \E k \in ChunkSizes(source) :
       /\ wire' = wire \o SubSeq(source, 1, k)
       /\ heard' = heard \o SubSeq(source, 1, k)
       /\ source' = SubSeq(source, k + 1, Len(source))
  /\ chunks' = IF chunks < 2 THEN chunks + 1 ELSE chunks
  /\ UNCHANGED <<version, masterVars, codecVars>>
  /\ UNCHANGED <<crate, deq, loc, spc, sret, fed, delivered, sent, last, ioErrs,
                 status_variants>>

\* The engine moves: its read gave o, the buffer becomes d, it is next at p.
SlaveMove(o, d, p, act, scanned, n) ==
  /\ wire' = o.rest
  /\ ioErrs' = IF o.r = "ioerr" THEN ioErrs + 1 ELSE ioErrs
  /\ deq' = d
  /\ spc' = p
  /\ last' = [rd |-> o.r, act |-> act, scanned |-> scanned, n |-> n]
  /\ UNCHANGED <<version, masterVars, codecVars, crate, source, fed, chunks, sent,
                 status_variants, heard>>

\* recv_instruction from the top of its loop to its second await:
\* ensure_buffer(4 or 7), then the header, id and length checks.
RecvHead ==
  /\ spc = "head"
  /\ \E o \in ReadOutcomes(crate, version, wire, deq, HeaderLen(version)) :
       LET e == ensure_buffer(crate, version, deq, HeaderLen(version), o)
           h == ScanHeader(version, e.deq)
       IN IF e.kind = "again"
          THEN SlaveMove(o, e.deq, "head", "wait", deq, HeaderLen(version))
               /\ UNCHANGED <<loc, sret, delivered>>
          ELSE IF e.kind = "err" /\ crate = "lib"
          THEN SlaveMove(o, e.deq, "head", "wait", deq, HeaderLen(version))
               /\ UNCHANGED <<loc, sret, delivered>>
          ELSE IF e.kind = "err"
          THEN SlaveMove(o, e.deq, "ret", "err", deq, HeaderLen(version))
               /\ sret' = RetErr(e.err) /\ UNCHANGED <<loc, delivered>>
          ELSE IF e.kind = "panic"
          THEN SlaveMove(o, e.deq, "ret", "panic", deq, HeaderLen(version))
               /\ sret' = RetPanic /\ UNCHANGED <<loc, delivered>>
          ELSE IF h.pop
          THEN SlaveMove(o, Tail(e.deq), "head", "pop", e.deq, HeaderLen(version))
               /\ UNCHANGED <<loc, sret, delivered>>
          ELSE SlaveMove(o, e.deq, "tail", "more", e.deq, HeaderLen(version))
               /\ loc' = [id |-> h.id, len |-> h.len]
               /\ UNCHANGED <<sret, delivered>>

\* recv_instruction from its second await to the end of the loop body:
\* ensure_buffer(4 + len or 7 + len), then the opcode, checksum and status
\* checks and the delivery.
RecvTail ==
  /\ spc = "tail"
  /\ LET n == HeaderLen(version) + loc.len
     IN \E o \in ReadOutcomes(crate, version, wire, deq, n) :
       LET e == ensure_buffer(crate, version, deq, n, o)
           f == ScanFrame(crate, version, e.deq, loc.id, loc.len)
       IN IF e.kind = "again"
          THEN SlaveMove(o, e.deq, "tail", "wait", deq, n)
               /\ UNCHANGED <<loc, sret, delivered>>
          ELSE IF e.kind = "err" /\ crate = "lib"
          THEN SlaveMove(o, <<>>, "head", "clear", deq, n)
               /\ UNCHANGED <<loc, sret, delivered>>
          ELSE IF e.kind = "err"
          THEN SlaveMove(o, e.deq, "ret", "err", deq, n)
               /\ sret' = RetErr(e.err) /\ UNCHANGED <<loc, delivered>>
          ELSE IF e.kind = "panic" \/ f.act = "panic"
          THEN SlaveMove(o, e.deq, "ret", "panic", e.deq, n)
               /\ sret' = RetPanic /\ UNCHANGED <<loc, delivered>>
          ELSE IF f.act = "deliver"
          THEN SlaveMove(o, f.deq, "ret", "deliver", e.deq, n)
               /\ sret' = RetOk(f.instr)
               /\ delivered' = Append(delivered, [instr |-> f.instr, nsent |-> Len(sent)])
               /\ UNCHANGED loc
          ELSE SlaveMove(o, f.deq, "head", f.act, e.deq, n)
               /\ UNCHANGED <<loc, sret, delivered>>

\* The application answers the instruction it was given: send_status writes
\* one frame; on a half-duplex line the port may receive its own frame back.
\* When send_status fails, `send_status(..).await?` of the application ends
\* the run with its error.
SendStatus ==
  /\ spc = "ret" /\ sret.kind = "ok"
  /\ Len(sent) < Len(delivered)
  /\ \E a \in SlaveStatusArgs, echo \in BOOLEAN,
        wr \in (IF ioErrs < MaxIoErrors THEN PortWrites ELSE {"ok"}) :
       LET r == send_status(version, a.id, a.status, a.params, wr)
       IN IF r.kind = "ok"
          THEN /\ sent' = Append(sent, r.frame)
               /\ source' = IF echo THEN source \o r.frame ELSE source
               /\ UNCHANGED <<spc, ioErrs, last>>
          ELSE /\ ~echo
               /\ spc' = "stop"
               /\ ioErrs' = IF wr = "ioerr" /\ r.kind = "err" THEN ioErrs + 1 ELSE ioErrs
               /\ last' = [rd |-> "none", act |-> "send" \o r.kind, scanned |-> <<>>, n |-> 0]
               /\ UNCHANGED <<sent, source>>
  /\ UNCHANGED <<version, wire, masterVars, codecVars>>
  /\ UNCHANGED <<crate, deq, loc, sret, fed, chunks, delivered, status_variants, heard>>

\* The application calls recv_instruction again.
RecvAgain ==
  /\ spc = "ret" /\ sret.kind = "ok"
  /\ Len(delivered) < MaxCalls
  /\ spc' = "head"
  /\ sret' = NoRet
  /\ UNCHANGED <<version, wire, masterVars, codecVars>>
  /\ UNCHANGED <<crate, deq, loc, source, fed, chunks, delivered, sent, last, ioErrs,
                 status_variants, heard>>

SlaveNext == Arrive \/ RecvHead \/ RecvTail \/ SendStatus \/ RecvAgain

SlaveSpec == SlaveInit /\ [][SlaveNext]_vars

\* The slave task is scheduled whenever it can run and the bus keeps bringing
\* the bytes it has.
SlaveFairSpec ==
  SlaveSpec /\ WF_vars(Arrive) /\ WF_vars(RecvHead) /\ WF_vars(RecvTail)

\* ---------------------------------------------------------- codec on its own

\* A parameter block of n bytes: seed, seed + step, seed + 2 * step, ... mod 256.
Payload(n, seed, step) == [i \in 1..n |-> (seed + (i - 1) * step) % 256]

\* Parameter lengths around the largest frame each buffer can hold.
V1ParamLens == {0, 1, 2, 5, 248, 249, 250, 253, 254}
V2ParamLens == {0, 1, 2, 253, 254}
V2LongParamLens == {65525, 65526, 65533}
V1StatusLens == {0, 1, 3, 250, 251, 252}
V2StatusLens == {0, 1, 3, 65525, 65526, 65528}

\* A frame is recorded up to this many bytes, enough for its header and for
\* every V1 frame.
KeepLen == 300

\* The byte at position pos (1-based) of a frame replaced by val; pos = 0
\* leaves the frame as it is.
Corrupt(frame, pos, val) == IF pos = 0 THEN frame ELSE [frame EXCEPT ![pos] = val]

\* Parameter blocks (n, seed, step) of the frames that are encoded and decoded again.
RoundTripBlocks ==
  {<<0, 0, 0>>, <<1, 0, 0>>, <<1, 252, 0>>, <<2, 37, 11>>, <<3, 255, 0>>, <<5, 37, 11>>}
V1RoundTripLong == {<<248, 37, 11>>, <<249, 37, 11>>}
V2RoundTripLong == {<<249, 37, 11>>, <<65523, 37, 11>>, <<65524, 37, 11>>}

\* A codec call on the parameter block b = (n, seed, step).
Call(fn, id, o, b, pos, val) ==
  [fn |-> fn, id |-> id, op |-> o, n |-> b[1], seed |-> b[2], step |-> b[3],
   pos |-> pos, val |-> val]

\* Encoder calls whose frame is handed to the status decoder.
RoundTripInputs ==
  {Call("roundtrip_v1", id, o, b, 0, 0) :
     id \in {0, 1, 253}, o \in {OPCODE_PING, OPCODE_READ, OPCODE_WRITE}, b \in RoundTripBlocks}
  \cup {Call("roundtrip_v1", 1, OPCODE_READ, b, 0, 0) : b \in V1RoundTripLong}
  \cup
  {Call("roundtrip_v2", id, o, b, 0, 0) :
     id \in {0, 1, 253}, o \in {OPCODE_PING, OPCODE_READ, STATUS_MARK}, b \in RoundTripBlocks}
  \cup {Call("roundtrip_v2", 1, OPCODE_READ, b, 0, 0) : b \in V2RoundTripLong}

\* Parameter lengths of the status frames that are sent and decoded again,
\* up to the largest the length field can declare (253 on V1, 65531 on V2).
V1StatusTripLens == {0, 1, 3, 249, 250, 251, 253}
V2StatusTripLens == {0, 1, 3, 65524, 65525, 65526, 65531}

\* send_status calls whose frame is handed to the master's status decoder.
StatusTripInputs ==
  {Call("status_roundtrip_v1", id, st, <<n, 37, 11>>, 0, 0) :
     id \in {1, 253}, st \in {0, 64}, n \in V1StatusTripLens}
  \cup
  {Call("status_roundtrip_v2", id, st, <<n, 37, 11>>, 0, 0) :
     id \in {1, 253}, st \in {0, 64}, n \in V2StatusTripLens}

\* Status frames a decoder is given: (n, seed, step) of the parameter block.
V1DecodeBlocks == {<<0, 0, 0>>, <<1, 252, 0>>, <<1, 32, 0>>, <<2, 37, 11>>, <<3, 37, 11>>}
V2DecodeBlocks == {<<0, 0, 0>>, <<1, 32, 0>>, <<2, 37, 11>>, <<245, 37, 11>>}

\* The values a byte b of a frame is changed to; the length byte of a V1
\* frame is changed to every other value.
Changes(b) == ({0, 1, 3, 4, 85, 128, 253, 255} \cup {(b + d) % 256 : d \in {1, 2, 255}}) \ {b}

\* The calls of a decoder on the status frame (id 1, status st, block b) as a
\* device sends it (pos = 0) and with one of its first upto bytes changed.
DecodeCalls(fn, v, st, b, upto) ==
  LET frame == StatusFrame(v, 1, st, Payload(b[1], b[2], b[3]))
  IN {Call(fn, 1, st, b, 0, 0)}
     \cup UNION {{Call(fn, 1, st, b, pos, val) :
                    val \in IF v = 1 /\ pos = 4 THEN (0..255) \ {frame[pos]}
                            ELSE Changes(frame[pos])} :
                 pos \in 1..upto}

\* Buffers handed to the status decoders, for status bytes sts.
DecodeInputs(sts) ==
  UNION {DecodeCalls("decode_status_v1", 1, st, b, 6 + b[1]) : st \in sts, b \in V1DecodeBlocks}
  \cup
  UNION {DecodeCalls("decode_status_v2", 2, st, b, IF b[1] = 245 THEN 9 ELSE 11 + b[1]) :
           st \in sts, b \in V2DecodeBlocks}

\* The calls of the encoders and of send_status that are applied; the
\* parameter block of a call is Payload(n, seed, step).
CodecInputs ==
  {[fn |-> "encode_instruction_v1", id |-> id, op |-> o, n |-> n, seed |-> s[1], step |-> s[2],
    pos |-> 0, val |-> 0] :
     id \in {0, 1, BROADCAST_ID}, o \in {OPCODE_PING, OPCODE_READ, OPCODE_WRITE},
     n \in V1ParamLens, s \in {<<0, 0>>, <<255, 0>>, <<37, 11>>}}
  \cup
  {[fn |-> "encode_instruction_v2", id |-> id, op |-> o, n |-> n, seed |-> 37, step |-> 11,
    pos |-> 0, val |-> 0] :
     id \in {1, BROADCAST_ID}, o \in {OPCODE_READ, OPCODE_WRITE, OPCODE_SYNC_WRITE},
     n \in V2ParamLens \cup V2LongParamLens}
  \cup
  {[fn |-> "send_status_v1", id |-> 1, op |-> st, n |-> n, seed |-> 37, step |-> 11,
    pos |-> 0, val |-> 0] :
     st \in {0, 64}, n \in V1StatusLens}
  \cup
  {[fn |-> "send_status_v2", id |-> 1, op |-> st, n |-> n, seed |-> 37, step |-> 11,
    pos |-> 0, val |-> 0] :
     st \in {0, 64}, n \in V2StatusLens}
  \cup RoundTripInputs \cup StatusTripInputs

\* The calls that work on the 255-byte buffers of Protocol 1.
V1Calls ==
  {"encode_instruction_v1", "send_status_v1", "roundtrip_v1", "decode_status_v1",
   "status_roundtrip_v1"}

\* The parameter block of the call.
CallParams == Payload(cin.n, cin.seed, cin.step)

\* One call is about to be made, on no port.
CodecInit ==
  /\ cin \in CodecInputs \cup DecodeInputs({0, 64})
  /\ cout = NoResult
  /\ version = (IF cin.fn \in V1Calls THEN 1 ELSE 2)
  /\ wire = <<>>
  /\ retries = 0 /\ overflow_checks = FALSE /\ pc = "idle" /\ op = NoOp
  /\ attempt = 0 /\ error = None /\ ret = NoRet
  /\ outcomes = <<>> /\ io = <<>> /\ failFirst = 0 /\ scan = NoScan /\ cmd = NoCmd
  /\ NoSlave

\* The first KeepLen bytes of a frame.
Kept(frame) == IF Len(frame) <= KeepLen THEN frame ELSE SubSeq(frame, 1, KeepLen)

\* The result of an encoder: the length it returned and the frame it wrote.
Encoded(enc) ==
  [kind |-> IF enc.panic THEN "panic" ELSE "ok", err |-> None, n |-> enc.n,
   frame |-> Kept(enc.frame), params |-> <<>>]

\* The result of send_status: the length of the frame it wrote to the port, and the frame.
Emitted(r) ==
  [kind |-> r.kind, err |-> r.err, n |-> Len(r.frame), frame |-> Kept(r.frame), params |-> <<>>]

\* encode_instruction_v1 on the 255-byte buffer of read_v1 / write_v1 / ping_v1.
EncodeV1 ==
  /\ cin.fn = "encode_instruction_v1" /\ cout = NoResult
  /\ cout' = Encoded(encode_instruction_v1(V1BufLen, cin.id, cin.op, CallParams))
  /\ UNCHANGED <<version, wire, masterVars, slaveVars, cin>>

\* encode_instruction_v2 on the 65535-byte buffer of read1 / write1 / sync_*.
EncodeV2 ==
  /\ cin.fn = "encode_instruction_v2" /\ cout = NoResult
  /\ cout' = Encoded(encode_instruction_v2(V2BufLen, cin.id, cin.op, CallParams))
  /\ UNCHANGED <<version, wire, masterVars, slaveVars, cin>>

\* ProtocolV1::send_status of the slave.
StatusV1Call ==
  /\ cin.fn = "send_status_v1" /\ cout = NoResult
  /\ \E wr \in PortWrites : cout' = Emitted(send_status(1, cin.id, cin.op, CallParams, wr))
  /\ UNCHANGED <<version, wire, masterVars, slaveVars, cin>>

\* ProtocolV2::send_status of the slave.
StatusV2Call ==
  /\ cin.fn = "send_status_v2" /\ cout = NoResult
  /\ \E wr \in PortWrites : cout' = Emitted(send_status(2, cin.id, cin.op, CallParams, wr))
  /\ UNCHANGED <<version, wire, masterVars, slaveVars, cin>>

\* The result of a status decoder: what it returned and the parameters it
\* wrote to the start of the zeroed caller buffer.
Decoded(r) ==
  [kind |-> r.kind, err |-> r.err, n |-> r.n, frame |-> <<>>, params |-> Kept(r.params)]

\* The frame of the call with a zero error byte: on Protocol 1 the error byte
\* of a status frame sits where the instruction byte does; on Protocol 2 it
\* is the first byte after the instruction byte.
RoundTripFrame(c) ==
  IF c.fn = "roundtrip_v1"
  THEN encode_instruction_v1(V1BufLen, c.id, 0, Payload(c.n, c.seed, c.step))
  ELSE encode_instruction_v2(V2BufLen, c.id, c.op, <<0>> \o Payload(c.n, c.seed, c.step))

\* The decoder of the protocol applied to the frame of the call.
RoundTrip(c) ==
  LET enc == RoundTripFrame(c)
  IN IF enc.panic THEN [kind |-> "panic", err |-> None, n |-> 0, params |-> <<>>]
     ELSE IF c.fn = "roundtrip_v1" THEN decode_status_v1(enc.frame, V1BufLen, <<>>)
     ELSE decode_status_v2(enc.frame, V2BufLen, <<>>)

\* encode_instruction_v1 followed by decode_status_v1 on the same buffer.
RoundTripV1 ==
  /\ cin.fn = "roundtrip_v1" /\ cout = NoResult
  /\ cout' = Decoded(RoundTrip(cin))
  /\ UNCHANGED <<version, wire, masterVars, slaveVars, cin>>

\* encode_instruction_v2 followed by decode_status_v2 on the same buffer.
RoundTripV2 ==
  /\ cin.fn = "roundtrip_v2" /\ cout = NoResult
  /\ cout' = Decoded(RoundTrip(cin))
  /\ UNCHANGED <<version, wire, masterVars, slaveVars, cin>>

\* The buffer of a decoder call: the bytes received, the rest of it zero.
CallBuffer ==
  Corrupt(StatusFrame(version, cin.id, cin.op, CallParams), cin.pos, cin.val)

\* decode_status_v1 on the 255-byte buffer of read_v1 / write_v1.
DecodeV1 ==
  /\ cin.fn = "decode_status_v1" /\ cout = NoResult
  /\ cout' = Decoded(decode_status_v1(CallBuffer, V1BufLen, <<>>))
  /\ UNCHANGED <<version, wire, masterVars, slaveVars, cin>>

\* decode_status_v2 on the 65535-byte buffer of read1 / write1 / sync_read1.
DecodeV2 ==
  /\ cin.fn = "decode_status_v2" /\ cout = NoResult
  /\ cout' = Decoded(decode_status_v2(CallBuffer, V2BufLen, <<>>))
  /\ UNCHANGED <<version, wire, masterVars, slaveVars, cin>>

\* send_status of the slave, on a port that takes the write, followed by the
\* status decoder of the master of the same version, on the frame as the
\* master's buffer receives it: the decoder's result and the frame, or the
\* failure of send_status and no frame.
StatusTrip(v, c) ==
  LET r == send_status(v, c.id, c.op, Payload(c.n, c.seed, c.step), "ok")
      dec == IF v = 1 THEN decode_status_v1(r.frame, V1BufLen, <<>>)
             ELSE decode_status_v2(r.frame, V2BufLen, <<>>)
  IN IF r.kind # "ok" THEN Emitted(r)
     ELSE [Decoded(dec) EXCEPT !.frame = Kept(r.frame)]

\* ProtocolV1::send_status / ProtocolV2::send_status, then decode_status_v1 /
\* decode_status_v2.
StatusRoundTrip ==
  /\ cin.fn \in {"status_roundtrip_v1", "status_roundtrip_v2"} /\ cout = NoResult
  /\ cout' = StatusTrip(version, cin)
  /\ UNCHANGED <<version, wire, masterVars, slaveVars, cin>>

CodecNext ==
  \/ EncodeV1 \/ EncodeV2 \/ StatusV1Call \/ StatusV2Call
  \/ RoundTripV1 \/ RoundTripV2 \/ DecodeV1 \/ DecodeV2
  \/ StatusRoundTrip

CodecSpec == CodecInit /\ [][CodecNext]_vars

\* ------------------------------------------------------------------ claims

Done == pc = "done"

\* The operation passed the argument checks made ahead of its retry loop.
ChecksPass ==
  /\ op.name # "none"
  /\ (version = 1 /\ op.name = "read") => V1ReadCheck(op.address, op.count) = None
  /\ (version = 1 /\ op.name = "write") => V1WriteCheck(op.address) = None

\* The write_all entries of the log.
IsWrite(e) == e.t = "w"
IsRead(e) == e.t = "r"

\* Attempt i took bytes of a reply from the port.
ReplyRead(i) ==
  \E j \in 1..Len(io) : io[j].a = i /\ IsRead(io[j]) /\ io[j].bytes # <<>>

\* Attempt i failed through what the bus did to it: it returned an error, or
\* it was aborted while handling the reply it had read.
FailedOnBus(i) ==
  \/ outcomes[i].kind = "err"
  \/ outcomes[i].kind = "panic" /\ ReplyRead(i)

\* The bus kept to its script so far: every attempt among the first failFirst
\* failed through the bus and every later one succeeded.
ScriptHonoured ==
  \A i \in 1..Len(outcomes) :
    IF i <= failFirst THEN FailedOnBus(i) ELSE outcomes[i].kind = "ok"

\* C1: when the first k = failFirst attempts of a read, write, sync_read or
\* sync_write fail, whatever the fault (write error, timeout, framing error,
\* checksum / CRC error, device status byte), and attempt k+1 succeeds if it
\* is made, the operation returns success iff k <= retries.
C1_RetrySucceedsIff ==
  (Done /\ ChecksPass /\ ScriptHonoured)
    => ((ret.kind = "ok") <=> (failFirst <= retries))

\* C2: when every attempt of an operation failed, the error returned is the
\* error of the last attempt, which is attempt retries+1.
C2_LastErrorReturned ==
  (Done /\ ChecksPass /\ ret.kind = "err")
    => /\ Len(outcomes) = retries + 1
       /\ \A i \in 1..Len(outcomes) : outcomes[i].kind = "err"
       /\ ret.err = outcomes[Len(outcomes)].err

\* C2 witness: three failed attempts whose first and last errors differ.
C2_Witness ==
  /\ Done /\ ChecksPass /\ ret.kind = "err"
  /\ Len(outcomes) = 3
  /\ outcomes[1].err # outcomes[3].err
  /\ outcomes[2].err # outcomes[3].err

\* C3: an operation makes at most retries+1 attempts, exactly retries+1 when
\* every attempt fails, and no frame is written after a successful attempt.
C3_AttemptBudget ==
  /\ Len(outcomes) <= retries + 1
  /\ \A i \in 1..Len(outcomes) : outcomes[i].kind = "ok" => i = Len(outcomes)
  /\ \A i \in 1..Len(io) :
       IsWrite(io[i]) => \A j \in 1..(io[i].a - 1) : outcomes[j].kind = "err"
  /\ Cardinality({i \in 1..Len(io) : IsWrite(io[i])}) <= Len(outcomes)
  /\ (Done /\ ChecksPass /\ \A i \in 1..Len(outcomes) : outcomes[i].kind = "err")
       => Len(outcomes) = retries + 1

\* C3 witness: an operation that succeeded at its second attempt although the
\* engine had two retries left to spend.
C3_Witness ==
  /\ Done /\ retries = 2 /\ ret.kind = "ok" /\ Len(outcomes) = 2
  /\ Cardinality({i \in 1..Len(io) : IsWrite(io[i])}) = 2

\* C4: whenever the master writes a frame, no byte of a reply to an earlier
\* frame is unread or still to arrive.
C4_NoStaleBytesAtWrite ==
  \A i \in 1..Len(io) : IsWrite(io[i]) => io[i].pending = 0

\* C5: a V1 read with address > 0xFE fails with InvalidAddress, otherwise with
\* count > 0xFF it fails with InvalidCount, in both cases without any attempt
\* and without transport I/O.
C5_V1ReadLimits ==
  (version = 1 /\ op.name = "read")
    => /\ op.address > 254
            => (Done /\ ret = RetErr(ErrInvalidAddress) /\ io = <<>> /\ outcomes = <<>>)
       /\ (op.address <= 254 /\ op.count > 255)
            => (Done /\ ret = RetErr(ErrInvalidCount) /\ io = <<>> /\ outcomes = <<>>)

\* C5 witness: a read that breaks both limits at once.
C5_Witness ==
  /\ version = 1 /\ op.name = "read" /\ Done
  /\ op.address > 254 /\ op.count > 255

\* C6: a V1 write with address > 0xFF fails with InvalidAddress before any
\* I/O; with address <= 0xFF the argument check does not reject it.
C6_V1WriteLimit ==
  (version = 1 /\ op.name = "write")
    => /\ op.address > 255
            => (Done /\ ret = RetErr(ErrInvalidAddress) /\ io = <<>> /\ outcomes = <<>>)
       /\ op.address <= 255
            => /\ ret.err \notin {ErrInvalidAddress, ErrInvalidCount}
               /\ (pc = "loop" \/ outcomes # <<>>)

\* C6 witness: a rejected write to address 0x100.
C6_Witness ==
  /\ version = 1 /\ op.name = "write" /\ Done /\ op.address = 256

\* C7: a successful read returns exactly count bytes.
C7_ReadLength ==
  (Done /\ op.name = "read" /\ ret.kind = "ok") => Len(ret.data) = op.count

\* C7 witness: a successful read of a non-empty range.
C7_Witness ==
  /\ Done /\ op.name = "read" /\ ret.kind = "ok" /\ op.count > 1

\* The read_exact entries of attempt a.
ReadsOf(a) == SelectSeq(io, LAMBDA e : IsRead(e) /\ e.a = a)

\* The parameter bytes a V2 status packet carries.
StatusPayloadV2(bytes) ==
  Range(bytes, 9, 9 + (from_le_bytes(At(bytes, 5), At(bytes, 6)) - 4))

\* C8: a successful sync_read returns |ids| entries of count bytes each, entry
\* i being the payload of the i-th status packet read after the broadcast.
C8_SyncReadEntries ==
  (Done /\ op.name = "sync_read" /\ ret.kind = "ok")
    => /\ Len(ret.data) = Len(op.ids)
       /\ Len(ReadsOf(Len(outcomes))) = Len(op.ids)
       /\ \A i \in 1..Len(op.ids) :
            /\ Len(ret.data[i]) = op.count
            /\ ret.data[i] = StatusPayloadV2(ReadsOf(Len(outcomes))[i].bytes)

\* C9: sync_write with |ids| # |data| fails with InvalidArg, whatever the two
\* lengths, and writes nothing.
C9_SyncWriteLengths ==
  (Done /\ op.name = "sync_write" /\ Len(op.ids) # Len(op.data))
    => (ret = RetErr(ErrInvalidArg) /\ io = <<>>)

\* C10: sync_write whose data entries differ in length from data[0] fails
\* with InvalidArg and writes nothing.
C10_SyncWriteEqualEntries ==
  (Done /\ op.name = "sync_write"
        /\ \E i \in 1..Len(op.data) : Len(op.data[i]) # Len(op.data[1]))
    => (ret = RetErr(ErrInvalidArg) /\ \A i \in 1..Len(io) : ~IsWrite(io[i]))


\* The log entries of attempt a.
IoOf(a) == SelectSeq(io, LAMBDA e : e.a = a)

\* C11: a successful sync_write attempt is exactly one write_all, of one frame
\* addressed to the broadcast id 0xFE with opcode 0x83, and no read_exact; the
\* operation returns right after that write, which is the last entry of the log.
C11_SyncWriteSingleBroadcast ==
  (Done /\ op.name = "sync_write" /\ ret.kind = "ok")
    => LET log == IoOf(Len(outcomes))
       IN /\ Len(log) = 1
          /\ IsWrite(log[1])
          /\ log[1].n = Len(log[1].bytes)
          /\ SubSeq(log[1].bytes, 1, 4) = <<255, 255, 253, 0>>
          /\ log[1].bytes[5] = BROADCAST_ID
          /\ log[1].bytes[8] = OPCODE_SYNC_WRITE
          /\ io[Len(io)] = log[1]
          /\ \A i \in 1..Len(io) : IsRead(io[i]) => io[i].a # Len(outcomes)

C11_Witness ==
  /\ Done /\ op.name = "sync_write" /\ ret.kind = "ok"
  /\ Len(op.ids) = 2
  /\ Len(outcomes) = 2
  /\ Len(io) = 2

\* The RawInstruction of PingFrame(v).
PingInstr(v) == [version |-> v, id |-> 1, opcode |-> OPCODE_PING, data |-> <<>>]

\* The engine waits for bytes that will never come: the bus has brought the
\* whole stream, the port is empty, and the pending ensure_buffer needs more
\* than the buffer holds.
Starved ==
  /\ source = <<>> /\ wire = <<>>
  /\ \/ spc = "head" /\ Len(deq) < HeaderLen(version)
     \/ spc = "tail" /\ Len(deq) < HeaderLen(version) + loc.len

\* The stream is a non-empty garbage prefix followed by a ping frame.
GarbageFirst ==
  \E g \in GarbagePrefixes(version) \ {<<>>}, f \in Followers(version) :
    fed = g \o PingFrame(version) \o f

\* C12: slave resynchronisation.  For any garbage prefix followed by a valid
\* instruction frame, brought in one piece by a port that raises no hard
\* error, recv_instruction pops the garbage and returns the RawInstruction of
\* that frame: it does not panic, the first instruction it returns is the one
\* of the frame, and it is never left waiting with the frame gone.
C12_ResyncDelivers ==
  (spc # "none" /\ GarbageFirst /\ chunks <= 1 /\ ioErrs = 0)
    => /\ sret.kind \notin {"panic", "err"}
       /\ delivered # <<>> => delivered[1].instr = PingInstr(version)
       /\ ~(Starved /\ delivered = <<>>)

\* The stream is a frame with a spoiled checksum followed by a ping frame.
SpoiledFirst ==
  \E f \in Followers(version) :
    fed = Spoiled(IF version = 1 THEN PingFrame(1) ELSE WriteFrame(2))
            \o PingFrame(version) \o f

\* C13: slave framing rejection.  A frame with a wrong checksum produces no
\* instruction, and the valid frame that follows it is delivered, for every
\* timing of byte arrival: the first instruction returned is the one of the
\* valid frame and the engine is never left waiting with that frame gone.
C13_RejectThenDeliver ==
  (spc # "none" /\ SpoiledFirst /\ ioErrs = 0)
    => /\ sret.kind \notin {"panic", "err"}
       /\ delivered # <<>> => delivered[1].instr = PingInstr(version)
       /\ ~(Starved /\ delivered = <<>>)

\* C14: loopback filter.  No RawInstruction returned by recv_instruction is the
\* reading of a frame that send_status of the same engine wrote before.
C14_NoLoopbackDelivered ==
  \A i \in 1..Len(delivered) :
    \A j \in 1..delivered[i].nsent :
      WireFrame(version, delivered[i].instr.id, delivered[i].instr.opcode,
                delivered[i].instr.data) # sent[j]

\* C15: a hard I/O error of the port's read makes recv_instruction return
\* that error.
C15_HardErrorSurfaces ==
  last.rd = "ioerr" => (spc = "ret" /\ sret = RetErr(ErrIo))

\* C16: the receive buffer never holds more than 256 bytes on V1 and 65536
\* bytes on V2, neither between two steps of the engine nor right after the
\* ensure_buffer of its last step.
C16_BufferBounded ==
  /\ Len(deq) <= (IF version = 1 THEN 256 ELSE 65536)
  /\ Len(last.scanned) <= (IF version = 1 THEN 256 ELSE 65536)

\* C17: when the V1 slave delivers an instruction, the buffer loses exactly the
\* 4 + len bytes of the delivered frame from its head: what followed the frame
\* is still there, and nothing of the frame is.
C17_V1DrainsExactlyFrame ==
  (version = 1 /\ last.act = "deliver")
    => deq = SubSeq(last.scanned, 4 + loc.len + 1, Len(last.scanned))

\* C18: slave progress.  Every stream the bus brings holds a valid instruction
\* frame; unless the port raises a hard error, recv_instruction eventually
\* returns an instruction.
C18_EventuallyDelivers ==
  (spc # "none") => <>(delivered # <<>> \/ ioErrs > 0)

\* The length field of a frame: byte 3 on V1, the u16 LE at bytes 5..7 on V2.
LengthField(v, frame) ==
  IF v = 1 THEN frame[4] ELSE from_le_bytes(frame[6], frame[7])

\* The calls that emit a frame: the encoders and send_status.
EmitCalls ==
  {"encode_instruction_v1", "encode_instruction_v2", "send_status_v1", "send_status_v2"}

\* The fixed overhead the length field counts on top of the parameters.
Overhead(fn) ==
  IF fn \in {"encode_instruction_v1", "send_status_v1"} THEN 2
  ELSE IF fn = "encode_instruction_v2" THEN 3
  ELSE 4

\* C19: every frame emitted by the encoders and by send_status declares a
\* length equal to |params| plus the fixed overhead (V1: 2, V2 instruction: 3,
\* V2 status: 4), without wrapping.
C19_LengthFieldExact ==
  (cin.fn \in EmitCalls /\ cout.kind = "ok")
    => LengthField(version, cout.frame) = cin.n + Overhead(cin.fn)

C19_Witness ==
  /\ cin.fn = "encode_instruction_v2" /\ cout.kind = "ok"
  /\ cin.n = 65525
  /\ cout.n = 65535
  /\ LengthField(2, cout.frame) = 65528

\* C20: the V1 encoder, given a buffer of at least |params| + 6 bytes, writes
\* FF FF, id, 2 + |params|, opcode, the params and one checksum byte, returns
\* |params| + 6, and the wrapping sum of the bytes from id through the last
\* param plus the checksum byte is 0xFF.
C20_V1EncoderFrame ==
  (cin.fn = "encode_instruction_v1" /\ cout # NoResult /\ cin.n + 6 <= V1BufLen)
    => LET n == cin.n + 6
           frame == cout.frame
       IN /\ cout.kind = "ok"
          /\ cout.n = n
          /\ Len(frame) = n
          /\ SubSeq(frame, 1, n - 1)
               = <<255, 255, cin.id, 2 + cin.n, cin.op>> \o CallParams
          /\ frame[n] \in 0..255
          /\ (WrappingSum(SubSeq(frame, 3, n - 1), n - 3) + frame[n]) % 256 = 255

C20_Witness ==
  /\ cin.fn = "encode_instruction_v1" /\ cout.kind = "ok"
  /\ cin.n = 249 /\ cin.seed = 255
  /\ cout.n = 255

\* A round-trip call was made.
IsRoundTrip == cin.fn \in {"roundtrip_v1", "roundtrip_v2"} /\ cout # NoResult

\* C21 as stated: decoding the encoded frame (zero error byte) yields the same
\* (id, opcode, params), so what the decoder hands back tells the triples
\* apart: no call with another id, opcode or parameter block decodes to the
\* same result.
C21_RoundTripYieldsTriple ==
  IsRoundTrip =>
    /\ cout.kind = "ok"
    /\ \A c \in RoundTripInputs :
         (c.fn = cin.fn /\ c.n = cin.n /\ c.n <= 5 /\ Decoded(RoundTrip(c)) = cout) => c = cin

\* C21 amended: decoding the encoded frame (zero error byte) succeeds and
\* yields the same params and the length 6 + |params| (V1), 10 + |params|
\* (V2); the decoders hand back neither the id nor the opcode.
C21_RoundTripParams ==
  IsRoundTrip =>
    /\ cout.kind = "ok"
    /\ cout.params = Kept(CallParams)
    /\ cout.n = (IF version = 1 THEN 6 ELSE 10) + cin.n

\* A V2 frame filling the whole buffer decoded back to its parameters.
C21_Witness ==
  /\ IsRoundTrip /\ cin.fn = "roundtrip_v2" /\ cin.n = 65524
  /\ cout.kind = "ok" /\ cout.n = 65534
  /\ Len(cout.params) = KeepLen /\ cout.params[2] = 48

\* A status decoder was called on a frame with one byte changed.
IsCorrupted == cin.fn \in {"decode_status_v1", "decode_status_v2"} /\ cin.pos > 0 /\ cout # NoResult

\* C22: changing any single byte of a valid frame to a different value makes
\* the decoder return BadPacket or a StatusError other than the frame's own;
\* no single-byte corruption is decoded as success.
C22_CorruptionRejected ==
  IsCorrupted =>
    /\ cout.kind = "err"
    /\ \/ cout.err = ErrBadPacket
       \/ cout.err \in {ErrStatus(b) : b \in (1..255) \ {cin.op}}

\* decode_status_v1 was called.
IsDecodeV1 == cin.fn = "decode_status_v1" /\ cout # NoResult

\* The conditions of the V1 decoder contract on a buffer of cap bytes.
V1FrameOk(buffer, cap) ==
  LET p == At(buffer, 3) - 2
  IN /\ cap >= 6 /\ At(buffer, 3) >= 2 /\ cap >= 6 + p
     /\ At(buffer, 0) = 255 /\ At(buffer, 1) = 255
     /\ (WrappingSum(Range(buffer, 2, 5 + p), 3 + p) + At(buffer, 5 + p)) % 256 = 255
     /\ At(buffer, 4) = 0

\* C23: the V1 status decoder returns Ok(6 + p), p = buffer[3] - 2, with
\* out_params[0..p] = buffer[5..5+p], exactly when the buffer holds at least
\* 6 and 6 + p bytes, buffer[3] >= 2, the header is FF FF, the wrapping-sum
\* checksum matches and the error byte is zero; every other buffer, also one
\* whose length byte is below 2, gets an error value.
C23_V1DecoderContract ==
  IsDecodeV1 =>
    LET p == At(CallBuffer, 3) - 2
    IN IF V1FrameOk(CallBuffer, V1BufLen)
       THEN cout.kind = "ok" /\ cout.n = 6 + p /\ cout.params = Range(CallBuffer, 5, 5 + p)
       ELSE cout.kind = "err"

\* The test frame of the repository, FF FF 01 03 00 20 DB, decoded to Ok(7) and [20].
C23_Witness ==
  /\ IsDecodeV1 /\ cin.pos = 0
  /\ CallBuffer = <<255, 255, 1, 3, 0, 32, 219>>
  /\ cout.kind = "ok" /\ cout.n = 7 /\ cout.params = <<32>>

\* The bytes are one whole V1 status frame: FF FF header, a length byte that
\* matches their number, a matching checksum.
V1WellFormed(bytes) ==
  /\ Len(bytes) >= 6
  /\ bytes[1] = 255 /\ bytes[2] = 255
  /\ bytes[4] = Len(bytes) - 4
  /\ (WrappingSum(SubSeq(bytes, 3, Len(bytes) - 1), Len(bytes) - 3) + bytes[Len(bytes)]) % 256 = 255

\* Attempt a of a Protocol 1 operation read a well-formed status frame whose
\* error byte is not zero.
V1DeviceError(a) ==
  /\ version = 1 /\ a \in 1..Len(outcomes)
  /\ Len(ReadsOf(a)) = 1
  /\ ReadsOf(a)[1].n = Len(ReadsOf(a)[1].bytes)
  /\ V1WellFormed(ReadsOf(a)[1].bytes)
  /\ ReadsOf(a)[1].bytes[5] # 0

\* C24: on Protocol 1 an attempt that reads a well-formed status frame with a
\* non-zero error byte fails with StatusError carrying that byte, not with
\* BadPacket.
C24_V1StatusErrorReported ==
  \A a \in 1..Len(outcomes) :
    V1DeviceError(a)
      => outcomes[a] = [kind |-> "err", err |-> ErrStatus(ReadsOf(a)[1].bytes[5])]

\* decode_status_v2 was called.
IsDecodeV2 == cin.fn = "decode_status_v2" /\ cout # NoResult

\* The framing conditions of the V2 decoder contract on a buffer of cap
\* bytes: length field, header, and a CRC inside the buffer that matches.
V2Framed(buffer, cap) ==
  LET length == At(buffer, 5) + 256 * At(buffer, 6)
  IN /\ cap >= 10 /\ length >= 4
     /\ Range(buffer, 0, 4) = <<255, 255, 253, 0>>
     /\ length + 7 <= cap
     /\ LET cs == Crc16Umts(Range(buffer, 0, length + 5), length + 5)
        IN At(buffer, length + 5) = cs % 256 /\ At(buffer, length + 6) = cs \div 256

\* C25: on a buffer of at least 10 bytes the V2 status decoder succeeds
\* exactly when the length field is >= 4, the header is FF FF FD 00, the CRC
\* matches and the error byte at offset 8 is zero; it returns
\* StatusError(byte) when only the error byte is non-zero and BadPacket for
\* every framing or CRC violation, and never reads outside the buffer.
C25_V2DecoderContract ==
  IsDecodeV2 =>
    IF ~V2Framed(CallBuffer, V2BufLen) THEN cout.kind = "err" /\ cout.err = ErrBadPacket
    ELSE IF At(CallBuffer, 8) # 0
    THEN cout.kind = "err" /\ cout.err = ErrStatus(At(CallBuffer, 8))
    ELSE cout.kind = "ok"

\* The id that ping number a of a scan addressed, read off the frame it wrote.
PingId(a) == IoOf(a)[1].bytes[IF version = 1 THEN 3 ELSE 5]

\* The pings of a scan that addressed id.
PingsOf(id) == {a \in 1..Len(outcomes) : PingId(a) = id}

\* The ids of [start, end) in ascending order.
IdsFrom(start, end) == [i \in 1..(IF end > start THEN end - start ELSE 0) |-> start + i - 1]

\* The pings so far went through the ids in ascending order from scan_start,
\* at most retries+1 to one id and none after the id's first success.
ScanOrder ==
  /\ \A a \in 1..Len(outcomes) :
       /\ IsWrite(IoOf(a)[1])
       /\ PingId(a) \in scan.start..(scan.end - 1)
       /\ a > 1 => PingId(a) \in {PingId(a - 1), PingId(a - 1) + 1}
       /\ (a > 1 /\ outcomes[a - 1].kind = "ok") => PingId(a) = PingId(a - 1) + 1
  /\ outcomes # <<>> => PingId(1) = scan.start
  /\ \A id \in scan.start..(scan.end - 1) : Cardinality(PingsOf(id)) <= retries + 1

\* C26: scan(start, end) pings the ids start, ..., end-1 in ascending order,
\* each at most retries+1 times and never again after its first successful
\* ping; it always returns Ok, and the list returned is exactly the ids that
\* had a successful ping, ascending and without duplicates (empty, with no
\* transport I/O, when start >= end).
C26_Scan ==
  op.name = "scan" =>
    /\ ScanOrder
    /\ Done =>
         /\ ret.kind = "ok"
         /\ \A id \in scan.start..(scan.end - 1) : PingsOf(id) # {}
         /\ ret.data = SelectSeq(IdsFrom(scan.start, scan.end),
                                 LAMBDA id : \E a \in PingsOf(id) : outcomes[a].kind = "ok")
         /\ scan.start >= scan.end => (ret.data = <<>> /\ io = <<>>)

\* C27: every master operation ends by returning a typed result or a typed
\* failure, whatever its arguments; none aborts through an out-of-range
\* index, an arithmetic overflow or another panic.
C27_NoPanic ==
  /\ ret.kind # "panic"
  /\ Done => ret.kind \in {"ok", "err"}

\* C28: read-reg and write-reg on a register of variable size return a
\* structured error: the program is not aborted and no transport read or
\* write is made for the register.
C28_VariableRegError ==
  (cmd.name \in {"read-reg", "write-reg"} /\ cmd.reg # NoReg /\ cmd.reg.size = "Variable")
    => /\ cmd.ret.kind # "panic"
       /\ io = <<>>
       /\ cmd.ret # CmdNone => cmd.ret.kind = "err"

\* The bytes of one read are a V2 status frame the decoder accepts.
V2Accepted(bytes) == V2Framed(bytes, V2BufLen) /\ At(bytes, 8) = 0

\* Attempt a of a sync_read: one write of the broadcast frame, then reads of
\* 11 + count bytes, every read but the last one complete and accepted.
SyncReadShape(a) ==
  LET log == IoOf(a)
      n == Len(op.ids)
  IN /\ Len(log) >= 1 /\ Len(log) <= 1 + n
     /\ IsWrite(log[1])
     /\ SubSeq(log[1].bytes, 1, 4) = <<255, 255, 253, 0>>
     /\ log[1].bytes[5] = BROADCAST_ID
     /\ log[1].bytes[8] = OPCODE_SYNC_READ
     /\ SubSeq(log[1].bytes, 9, 12 + n)
          = <<op.address % 256, op.address \div 256, op.count % 256, op.count \div 256>> \o op.ids
     /\ \A i \in 2..Len(log) :
          /\ IsRead(log[i])
          /\ log[i].n = 11 + op.count
          /\ i < Len(log) => (Len(log[i].bytes) = log[i].n /\ V2Accepted(log[i].bytes))
     /\ outcomes[a].kind = "ok" => Len(log) = 1 + n
     /\ (outcomes[a].kind = "err" /\ Len(log) > 1)
          => ~(Len(log[Len(log)].bytes) = log[Len(log)].n /\ V2Accepted(log[Len(log)].bytes))

\* C29: one sync_read attempt over N ids is exactly one write (broadcast
\* frame to 0xFE, opcode 0x82, the ids in order) followed by at most N reads
\* of 11 + count bytes each; the first read or decode that fails ends the
\* attempt with no further read, and its partial results are discarded.
C29_SyncReadAttempt ==
  op.name = "sync_read" =>
    /\ \A a \in 1..Len(outcomes) : SyncReadShape(a)
    /\ (Done /\ ret.kind = "ok") => Len(ret.data) = Len(op.ids)
    /\ (Done /\ ret.kind # "ok") => ret.data = <<>>

\* C30: whenever a read of the slave times out, while it waits for the header
\* prefix or for the frame body, on V1 and on V2, the receive buffer is empty
\* when scanning restarts.
C30_TimeoutClearsBuffer ==
  (spc # "none" /\ last.rd = "timeout") => deq = <<>>

\* The bytes w stand at consecutive positions of the stream s.
Occurs(w, s) ==
  \E k \in 0..(Len(s) - Len(w)) : SubSeq(s, k + 1, k + Len(w)) = w

\* The opcode byte b is one the crate's enum knows and is not the status
\* marker of the version (0 on V1, 0x55 on V2).
InstructionOpcode(c, v, b) ==
  Opcode_from_u8(c, b) # -1 /\ b # (IF v = 1 THEN StatusV1 ELSE StatusV2)

\* C31: every RawInstruction returned by recv_instruction is the reading of a
\* contiguous window of the bytes the port received that is a well-formed
\* frame: fixed header, id other than 0xFF, non-zero length, a known opcode
\* that is not the status marker, matching checksum / CRC, and data equal to
\* the frame's parameter bytes (len - 2 of them on V1, len - 3 on V2).
C31_DeliveredIsFrame ==
  \A i \in 1..Len(delivered) :
    LET r == delivered[i].instr
    IN /\ r.version = version
       /\ r.id # 255
       /\ InstructionOpcode(crate, version, r.opcode)
       /\ Len(r.data) + (IF version = 1 THEN 2 ELSE 3) \in 1..(IF version = 1 THEN 255 ELSE 65535)
       /\ Occurs(WireFrame(version, r.id, r.opcode, r.data), heard)

\* C31 witness: after a garbage prefix two instructions have been returned,
\* the second with parameter bytes.
C31_Witness ==
  /\ GarbageFirst
  /\ Len(delivered) = 2
  /\ delivered[2].instr.data # <<>>

\* The reply a ping of the given version reads when all goes well: the status
\* packet of 6 bytes on V1, of 14 bytes (model number, firmware) on V2.
PingReply(v, id) == StatusFrame(v, id, 0, IF v = 1 THEN <<>> ELSE <<6, 4, 38>>)

\* The one read_exact of ping number a, if the ping got as far as reading.
PingRead(a) == IoOf(a)[2]

\* C32 as stated: a ping reads exactly 6 bytes on V1 and 11 bytes on V2, and a
\* ping whose read obtains the minimal status packet of the pinged device
\* (6 bytes on V1, 11 on V2) succeeds.
C32_PingReadsMinimal ==
  op.name = "scan" =>
    \A a \in 1..Len(outcomes) :
      Len(IoOf(a)) = 2 =>
        /\ PingRead(a).n = (IF version = 1 THEN 6 ELSE 11)
        /\ PingRead(a).bytes = StatusFrame(version, PingId(a), 0, <<>>)
             => outcomes[a].kind = "ok"

\* C32, amended: a ping reads exactly 6 bytes on V1 and 14 bytes on V2; a ping
\* whose read obtains the 6-byte (V1) or 14-byte (V2) status packet of the
\* pinged device succeeds, and one whose read obtains fewer bytes than that
\* (the minimal V2 packet of 11 bytes alone) fails with TimedOut.
C32_PingReads ==
  op.name = "scan" =>
    \A a \in 1..Len(outcomes) :
      Len(IoOf(a)) = 2 =>
        /\ IsRead(PingRead(a))
        /\ PingRead(a).n = (IF version = 1 THEN 6 ELSE 14)
        /\ PingRead(a).bytes = PingReply(version, PingId(a)) => outcomes[a].kind = "ok"
        /\ Len(PingRead(a).bytes) < PingRead(a).n
             => (outcomes[a].kind = "err" /\ outcomes[a].err = ErrTimedOut)

\* C32 witness: a V2 scan whose ping of device 1 read the 14-byte packet and
\* succeeded and whose ping of device 2 read the 11-byte packet and timed out.
C32_Witness ==
  /\ op.name = "scan" /\ version = 2
  /\ \E a \in 1..Len(outcomes) :
       /\ Len(IoOf(a)) = 2 /\ PingId(a) = 1
       /\ PingRead(a).bytes = PingReply(2, 1) /\ outcomes[a].kind = "ok"
  /\ \E a \in 1..Len(outcomes) :
       /\ Len(IoOf(a)) = 2 /\ PingId(a) = 2
       /\ PingRead(a).bytes = StatusFrame(2, 2, 0, <<>>)
       /\ outcomes[a].err = ErrTimedOut

\* Attempt a of a read wrote its instruction frame to the transport.
ReadWrote(a) ==
  /\ Len(IoOf(a)) >= 1
  /\ ~(outcomes[a].kind = "err" /\ outcomes[a].err = ErrIo)

\* C33: every attempt of a read whose instruction frame was written asks the
\* transport for exactly 6 + count (V1) or 11 + count (V2) reply bytes, for
\* every count the operation accepts; the sum does not wrap in the count's
\* 8-bit or 16-bit type, does not abort the attempt, and does not exceed the
\* reply buffer.
C33_ReadReplySize ==
  op.name = "read" =>
    \A a \in 1..Len(outcomes) :
      ReadWrote(a) =>
        /\ Len(IoOf(a)) = 2
        /\ IsRead(IoOf(a)[2])
        /\ IoOf(a)[2].n = (IF version = 1 THEN 6 ELSE 11) + op.count
        /\ IoOf(a)[2].n <= (IF version = 1 THEN V1BufLen ELSE V2BufLen)

\* The smallest length a frame can declare: opcode and checksum (V1), opcode
\* and CRC (V2).
MinLength(v) == IF v = 1 THEN 2 ELSE 3

\* C34: a candidate frame whose declared length is non-zero but too small to
\* hold an opcode and a checksum (1 on V1; 1 or 2 on V2) is rejected like any
\* other malformed frame once its bytes are buffered, also when its checksum
\* test passes: the engine neither returns it nor aborts on a payload range of
\* negative length.
C34_ShortLengthRejected ==
  (spc # "none" /\ last.n > HeaderLen(version) /\ loc.len < MinLength(version))
    => last.act \notin {"panic", "deliver"}

\* The stream begins with the valid ping frame: nothing precedes it.
FrameFirst == \E f \in Followers(version) : fed = PingFrame(version) \o f

\* The buffer b is a with at least one byte appended.
Extends(b, a) == Len(b) > Len(a) /\ SubSeq(b, 1, Len(a)) = a

\* C35: a valid instruction frame at the head of the stream is delivered
\* however the transport splits the bytes across read calls: a read that
\* returns fewer bytes than requested leaves them appended to the receive
\* buffer, the call does not fail, the first instruction returned is the one
\* of the frame, and the engine is never left waiting with the frame gone.
C35_SplitFrameDelivered ==
  (spc # "none" /\ FrameFirst /\ ioErrs = 0)
    => /\ last.rd = "short" => Extends(deq, last.scanned)
       /\ sret.kind \notin {"panic", "err"}
       /\ delivered # <<>> => delivered[1].instr = PingInstr(version)
       /\ ~(Starved /\ delivered = <<>>)

\* The id the i-th log entry of attempt a expects a reply from: entry 1 is the
\* write, entry i > 1 the read of the reply of ids[i - 1] (sync_read) or of the
\* one device addressed.
Addressed(a, i) ==
  IF op.name = "sync_read" THEN op.ids[i - 1]
  ELSE IF op.name = "scan" THEN PingId(a)
  ELSE op.id

\* The bytes are a status packet sent by the device id: its id field, and on
\* V2 the marker 0x55 at offset 7.
StatusFrom(bytes, id) ==
  IF version = 1 THEN At(bytes, 2) = id
  ELSE At(bytes, 4) = id /\ At(bytes, 7) = STATUS_MARK

\* C36: an attempt of ping, read, write or sync_read succeeds only on replies
\* that are status packets of the addressed device: every reply it read
\* carries the id it was addressed to (ids[i] for entry i of a sync_read) and,
\* on V2, the status marker 0x55.
C36_ReplyFromAddressed ==
  op.name \in {"scan", "read", "write", "sync_read"} =>
    \A a \in 1..Len(outcomes) :
      outcomes[a].kind = "ok" =>
        \A i \in 2..Len(IoOf(a)) : StatusFrom(IoOf(a)[i].bytes, Addressed(a, i))

\* The bytes obtained by the read_exact of the last attempt of the operation.
LastReply == IoOf(Len(outcomes))[2].bytes

\* The parameter length a status packet declares in its length field.
DeclaredParams(bytes) ==
  IF version = 1 THEN At(bytes, 3) - 2
  ELSE from_le_bytes(At(bytes, 5), At(bytes, 6)) - 4

\* C37: a successful read(id, addr, count) returns the parameter bytes of the
\* status packet it read: the packet declares count parameter bytes, lies
\* whole within the bytes read, and the data returned are those parameter
\* bytes and nothing else.
C37_ReadReturnsReplyParams ==
  (Done /\ op.name = "read" /\ ret.kind = "ok")
    => /\ Len(IoOf(Len(outcomes))) = 2
       /\ DeclaredParams(LastReply) = op.count
       /\ Len(LastReply) = (IF version = 1 THEN 6 ELSE 11) + op.count
       /\ ret.data = SubSeq(LastReply, (IF version = 1 THEN 6 ELSE 10),
                            (IF version = 1 THEN 5 ELSE 9) + op.count)

\* The call sends a status frame and decodes it, and has been made.
IsStatusTrip ==
  cin.fn \in {"status_roundtrip_v1", "status_roundtrip_v2"} /\ cout # NoResult

\* The status frame of the call fits the length field of its protocol.
FitsLengthField ==
  IF version = 1 THEN 2 + cin.n <= 255 ELSE 4 + cin.n <= 65535

\* C38: for every id and every params whose status frame fits the protocol's
\* length field, send_status(id, 0, params) writes a frame that the master's
\* status decoder of the same version accepts, yielding exactly params, and
\* the frame written with a non-zero status byte is decoded as a failure.
C38_StatusRoundTrip ==
  (IsStatusTrip /\ FitsLengthField)
    => IF cin.op = 0
       THEN /\ cout.frame # <<>>
            /\ cout.kind = "ok"
            /\ cout.n = cin.n + (IF version = 1 THEN 6 ELSE 10)
            /\ cout.params = Kept(CallParams)
       ELSE cout.frame # <<>> => cout.kind = "err"

\* The RawInstruction of WriteFrame(v).
WriteInstr(v) ==
  [version |-> v, id |-> 2, opcode |-> OPCODE_WRITE,
   data |-> IF v = 1 THEN <<30, 5>> ELSE <<30, 0, 5>>]

\* C39: master-to-slave round trip.  An instruction frame written by the
\* master's encoder for an id other than 0xFF, alone on the stream of a slave
\* of the same version whose port raises no hard error, is returned by
\* recv_instruction as the RawInstruction with the same id, opcode and
\* parameter bytes: the call does not fail, returns nothing else first, and
\* is never left waiting with the frame gone.
C39_MasterFrameDelivered ==
  \A m \in MasterCalls(version) :
    (spc # "none" /\ fed = MasterFrame(version, m) /\ ioErrs = 0)
      => /\ sret.kind \notin {"panic", "err"}
         /\ delivered # <<>>
              => delivered[1].instr
                   = [version |-> version, id |-> m[1], opcode |-> m[2], data |-> m[3]]
         /\ ~(Starved /\ delivered = <<>>)

\* The stream is a ping frame and a write frame back to back, possibly after
\* a garbage prefix.
BackToBack ==
  \E g \in GarbagePrefixes(version) :
    fed = g \o PingFrame(version) \o WriteFrame(version)

\* C40: two valid instruction frames back to back, possibly preceded by noise,
\* brought in one piece by a port that raises no hard error, are returned in
\* stream order by two successive recv_instruction calls: no call fails, the
\* first returns the first frame's instruction, the second the second's, and
\* the engine is never left waiting with a frame gone.
C40_BackToBackDelivered ==
  (spc # "none" /\ BackToBack /\ chunks <= 1 /\ ioErrs = 0)
    => /\ sret.kind \notin {"panic", "err"}
       /\ Len(delivered) >= 1 => delivered[1].instr = PingInstr(version)
       /\ Len(delivered) >= 2 => delivered[2].instr = WriteInstr(version)
       /\ ~(Starved /\ Len(delivered) < 2)


====
